---- MODULE Spec2Model ----
(***************************************************************************)
(* A model of SaleOrderDao (src/sale_order.py): the read-only query layer  *)
(* over the sale-order schema.  The database is modelled as three tables   *)
(* (orders, payments, items); every query of the DAO is evaluated the way  *)
(* the SQL it builds is evaluated: joins, WHERE, GROUP BY, aggregates,     *)
(* ORDER BY, LIMIT/OFFSET.                                                 *)
(*                                                                         *)
(* Conventions                                                             *)
(*   - a nullable column holds {} for SQL NULL and {v} for the value v;    *)
(*   - a nullable boolean column holds "true", "false" or "null";         *)
(*   - a text is a sequence of one-character strings;                      *)
(*   - an amount is an integer number of thousandths (12345 is 12.345),    *)
(*     so that stored values with more than two decimals exist;            *)
(*   - a WHERE clause keeps a row only when it evaluates to true.  The     *)
(*     clauses modelled here use AND, OR and EXISTS but never NOT, so an   *)
(*     unknown (NULL) comparison is modelled as FALSE.                     *)
(***************************************************************************)
EXTENDS Integers, Sequences, FiniteSets, TLC

VARIABLES
    orders,     \* table "order": a set of order rows
    payments,   \* table "order_payment": a set of payment rows
    items,      \* table "order_item": a set of item rows
    refundMap,  \* aggregated_status_by_refund_id_map of the caller
    returns,         \* table "order_return": a set of refund rows
    refundPayments,  \* table "order_refund_payment": a set of rows
    returnItems,     \* table "order_return_item": a set of rows
    call,       \* the last DAO call: its name and its arguments
    result      \* what that call returned

vars == <<orders, payments, items, refundMap, returns, refundPayments,
         returnItems, call, result>>

\* The three refund tables hold no row.
NoRefunds == returns = {} /\ refundPayments = {} /\ returnItems = {}

(***************************************************************************)
(* Values                                                                  *)
(***************************************************************************)
Null == {}

Some(v) == {v}

IsNull(x) == x = {}

Val(x) == CHOOSE v \in x : TRUE

\* A Python optional argument: None, or a value (which may be empty).  The
\* v of a None is never read by the code; it only keeps the field's type.
None == [none |-> TRUE, v |-> {}]

NoneText == [none |-> TRUE, v |-> <<>>]

NoneDate == [none |-> TRUE, v |-> 0]

NoneSeq == [none |-> TRUE, v |-> <<>>]

Given(v) == [none |-> FALSE, v |-> v]

\* Mutant: only None is told from a value ("is not None").
TruthyList_NotNone(f) == ~f.none

\* Python truthiness of an optional list / set argument: None and [] are falsy.
TruthyList(f) == ~f.none /\ f.v # {}

\* Python truthiness of an optional str argument: None and "" are falsy.
TruthyText(f) == ~f.none /\ f.v # <<>>

\* Python truthiness of an optional datetime argument: only None is falsy.
TruthyDate(f) == ~f.none

\* Python truthiness of an optional list of AmountFilter (a sequence here).
TruthySeq(f) == ~f.none /\ f.v # <<>>

(***************************************************************************)
(* Enumerations imported by the DAO (app.models.v1.sale_order,             *)
(* app.constants.common_enums).                                            *)
(***************************************************************************)
\* OrderStateEnum: the lifecycle codes 0..17 and their descriptions.  Only
\* the labels the DAO itself names are distinguished; the labels are written
\* in ASCII: "created" is the label U+5DF2 U+521B U+5EFA, "awaiting_payment"
\* is U+5F85 U+652F U+4ED8, "pay_anomaly" is U+652F U+4ED8 U+5F02 U+5E38,
\* "pay_failed" is U+652F U+4ED8 U+5931 U+8D25 and "unknown_state" is
\* U+672A U+77E5 U+72B6 U+6001.
OrderStateCodes == 0..17

OrderStateDescription(code) ==
    CASE code = 0 -> "created"
      [] code = 1 -> "awaiting_payment"
      [] code = 2 -> "pay_anomaly"
      [] code = 3 -> "pay_failed"
      [] OTHER -> "paid"

UnknownStateLabel == "unknown_state"

\* OrderSourceEnum.STORE_ORDER.code
STORE_ORDER == "store_order"

\* ComparisonOperator
ComparisonOperators == {"GT", "GTE", "LT", "LTE", "EQ", "NEQ"}

\* The amount types get_amount_condition knows.
AmountTypes == {"total_price", "discount_price", "receive_price"}

(***************************************************************************)
(* get_state_name / sale_order_state_trans                                 *)
(***************************************************************************)
\* Mutant: the description is read without the except ValueError branch.
get_state_name_NoExcept(state_value) == OrderStateDescription(state_value)

\* get_state_name(state_value): OrderStateEnum(state_value).description, or
\* the unknown label when the code is no member of the enumeration.
get_state_name(state_value) ==
    IF state_value \in OrderStateCodes
    THEN OrderStateDescription(state_value)
    ELSE UnknownStateLabel

\* sale_order_state_trans(exclude_state): the CASE expression over
\* SaleOrder.state, applied to one state code.
sale_order_state_trans(exclude_state, state) ==
    IF state \in OrderStateCodes /\ state \notin exclude_state
    THEN OrderStateDescription(state)
    ELSE UnknownStateLabel

\* The state CASE of the list and detail operations (default exclude_state).
state_case(state) == sale_order_state_trans({}, state)

(***************************************************************************)
(* convert_aggregated_refund_result_code                                   *)
(***************************************************************************)
\* Mutant: the map is read with .get() alone, so a pending refund (value
\* None) is not told from an absent one.
convert_aggregated_refund_result_code_GetOnly(refund_id, map) ==
    IF refund_id \notin DOMAIN map \/ map[refund_id] = "null" THEN 0
    ELSE IF map[refund_id] = "true" THEN 2
    ELSE 3

\* The map is a function from the refund ids it holds to "true", "false" or
\* "null" (None).
convert_aggregated_refund_result_code(refund_id, map) ==
    IF refund_id \notin DOMAIN map THEN 0
    ELSE LET is_aggregated_refund_success == map[refund_id]
         IN  IF is_aggregated_refund_success = "null" THEN 1
             ELSE IF is_aggregated_refund_success = "true" THEN 2
             ELSE 3

(***************************************************************************)
(* Text matching: ILIKE and fuzzy_search_string                            *)
(***************************************************************************)
\* DEFAULT_ESCAPE_CHAR of app.utils.sql_util.
DEFAULT_ESCAPE_CHAR == "\\"

\* The escape character of LIKE when no ESCAPE clause is given.
SQL_DEFAULT_ESCAPE == "\\"

\* ILIKE compares case-insensitively.
Lower(c) == IF c = "A" THEN "a" ELSE IF c = "B" THEN "b" ELSE c

\* s ILIKE pat ESCAPE esc, for a non-null text s.
RECURSIVE LikeMatch(_, _, _)
LikeMatch(s, pat, esc) ==
    IF pat = <<>> THEN s = <<>>
    ELSE IF Head(pat) = esc /\ Len(pat) >= 2
    THEN /\ s # <<>>
         /\ Lower(Head(s)) = Lower(pat[2])
         /\ LikeMatch(Tail(s), Tail(Tail(pat)), esc)
    ELSE IF Head(pat) = "%"
    THEN \/ LikeMatch(s, Tail(pat), esc)
         \/ (s # <<>> /\ LikeMatch(Tail(s), pat, esc))
    ELSE IF Head(pat) = "_"
    THEN s # <<>> /\ LikeMatch(Tail(s), Tail(pat), esc)
    ELSE /\ s # <<>>
         /\ Lower(Head(s)) = Lower(Head(pat))
         /\ LikeMatch(Tail(s), Tail(pat), esc)

\* column.ilike(pattern, escape=esc) on a nullable column: NULL never matches.
Ilike(col, pat, esc) == ~IsNull(col) /\ LikeMatch(Val(col), pat, esc)

\* The wildcard escaping of fuzzy_search_string.
RECURSIVE EscapeLike(_, _)
EscapeLike(s, esc) ==
    IF s = <<>> THEN <<>>
    ELSE IF Head(s) \in {"%", "_", esc}
    THEN <<esc, Head(s)>> \o EscapeLike(Tail(s), esc)
    ELSE <<Head(s)>> \o EscapeLike(Tail(s), esc)

\* fuzzy_search_string(string, escape_char): '%' + escaped string + '%'.
fuzzy_search_string(string, escape_char) ==
    <<"%">> \o EscapeLike(string, escape_char) \o <<"%">>

\* f"%{text}%": the input embedded in a pattern as it is.
RawPattern(string) == <<"%">> \o string \o <<"%">>

(***************************************************************************)
(* Aggregates over the payment table                                       *)
(***************************************************************************)
\* The sum of payment_amount over a set of payment rows (cast to Numeric:
\* exact decimal arithmetic).
RECURSIVE SumAmount(_)
SumAmount(rows) ==
    IF rows = {} THEN 0
    ELSE LET r == CHOOSE x \in rows : TRUE
         IN  r.payment_amount + SumAmount(rows \ {r})

\* round(x, 2) of a numeric: half away from zero, to a whole number of
\* hundredths (the result is still counted in thousandths).
Round2(x) ==
    IF x >= 0 THEN ((x + 5) \div 10) * 10
    ELSE -(((-x + 5) \div 10) * 10)

\* Mutant: a payment whose flag is NULL counts as successful.
SuccessPaymentRows_NullCounts(pays, o) ==
    {pm \in pays : pm.order_id = o.record_id /\ pm.is_pay_success # "false"}

\* SaleOrder JOIN SaleOrderPayment ON SaleOrder.record_id =
\* SaleOrderPayment.order_id WHERE SaleOrderPayment.is_pay_success IS TRUE,
\* the rows of one order.
SuccessPaymentRows(pays, o) ==
    {pm \in pays : pm.order_id = o.record_id /\ pm.is_pay_success = "true"}

\* func.sum(cast(payment_amount, Numeric)) ... GROUP BY SaleOrder.id: the
\* group of an order without joined rows does not exist, the value read
\* through an outer join (or a scalar subquery) is then NULL.
SumSuccessPay(pays, o) ==
    LET rows == SuccessPaymentRows(pays, o)
    IN  IF rows = {} THEN Null ELSE Some(SumAmount(rows))

\* Mutant: every payment is rounded, then the rounded amounts are summed.
success_pay_amount_RoundEach(pays, o) ==
    LET rows == SuccessPaymentRows(pays, o)
    IN  IF rows = {} THEN Null
        ELSE Some(SumAmount({[id |-> pm.id,
                              payment_amount |-> Round2(pm.payment_amount)] :
                                pm \in rows}))

\* func.round(func.sum(...), 2).label("success_pay_amount")
success_pay_amount(pays, o) ==
    LET total == SumSuccessPay(pays, o)
    IN  IF IsNull(total) THEN Null ELSE Some(Round2(Val(total)))

(***************************************************************************)
(* get_amount_condition                                                    *)
(***************************************************************************)
\* Mutant: GTE is mapped to the strict comparison.
operator_mapping_GteStrict(operator, f, v) ==
    CASE operator = "GT"  -> f > v
      [] operator = "GTE" -> f > v
      [] operator = "LT"  -> f < v
      [] operator = "LTE" -> f <= v
      [] operator = "EQ"  -> f = v
      [] operator = "NEQ" -> f # v

\* operator_mapping[amount_filter.operator](field, value) on non-null
\* numerics.
operator_mapping(operator, f, v) ==
    CASE operator = "GT"  -> f > v
      [] operator = "GTE" -> f >= v
      [] operator = "LT"  -> f < v
      [] operator = "LTE" -> f <= v
      [] operator = "EQ"  -> f = v
      [] operator = "NEQ" -> f # v

\* Mutant: a NULL amount is compared as 0 (coalesce(field, 0)).
amount_field_Coalesce(amount_type, o, pays) ==
    LET field == CASE amount_type = "total_price"    -> o.total_origin_price
                   [] amount_type = "discount_price" -> o.discount_price
                   [] amount_type = "receive_price"  -> SumSuccessPay(pays, o)
    IN  IF IsNull(field) THEN Some(0) ELSE field

\* amount_field_mapping.get(amount_type), evaluated on the row of one order;
\* receive_price is the correlated scalar subquery over the successful
\* payments.
amount_field(amount_type, o, pays) ==
    CASE amount_type = "total_price"    -> o.total_origin_price
      [] amount_type = "discount_price" -> o.discount_price
      [] amount_type = "receive_price"  -> SumSuccessPay(pays, o)

\* Mutant: an unknown amount_type falls back to the total price column
\* instead of returning None.
get_amount_condition_DefaultField(amount_filter, o, pays) ==
    IF amount_filter.operator \notin ComparisonOperators
    THEN [kind |-> "error", holds |-> FALSE]
    ELSE LET field == IF amount_filter.amount_type \in AmountTypes
                      THEN amount_field(amount_filter.amount_type, o, pays)
                      ELSE o.total_origin_price
         IN  [kind  |-> "pred",
              holds |-> /\ ~IsNull(field)
                        /\ operator_mapping(amount_filter.operator,
                                            Val(field), amount_filter.value)]

\* get_amount_condition(amount_filter), evaluated on one order:
\*   kind "none"  - the method returned None (unknown amount_type);
\*   kind "error" - operator_mapping[...] raised KeyError;
\*   kind "pred"  - a predicate, holds tells whether the row satisfies it
\*                  (a NULL field makes the comparison unknown: not true).
get_amount_condition(amount_filter, o, pays) ==
    IF amount_filter.amount_type \notin AmountTypes
    THEN [kind |-> "none", holds |-> FALSE]
    ELSE IF amount_filter.operator \notin ComparisonOperators
    THEN [kind |-> "error", holds |-> FALSE]
    ELSE LET field == amount_field(amount_filter.amount_type, o, pays)
         IN  [kind  |-> "pred",
              holds |-> /\ ~IsNull(field)
                        /\ operator_mapping(amount_filter.operator,
                                            Val(field), amount_filter.value)]

(***************************************************************************)
(* The WHERE conditions of the two list operations                         *)
(***************************************************************************)
\* Mutant: each condition rebinds the list instead of being appended to it,
\* so that only the last one is applied.
AndAll_LastOnly(conds) == conds[Len(conds)]

\* and_(*conditions)
AndAll(conds) == \A i \in DOMAIN conds : conds[i]

\* Mutant: the default allow-list also admits state 7.
DefaultStates_With7 == {4, 5, 6, 7, 8, 9, 10, 11}

\* The default state allow-list of both list operations.
DefaultStates == {4, 5, 6, 8, 9, 10, 11}

\* exists(select(1) from SaleOrderItem where order_id = SaleOrder.record_id
\* and disabled is false and (goods_sale_name ilike pat or barcode ilike pat))
ExistsItemLike(its, o, pat, esc) ==
    \E it \in its :
        /\ it.order_id = o.record_id
        /\ ~it.disabled
        /\ \/ Ilike(it.goods_sale_name, pat, esc)
           \/ Ilike(it.barcode, pat, esc)

\* exists(select(1) from SaleOrderPayment where order_id = SaleOrder.record_id
\* and payment_method_id in (...) and is_pay_success is true)
ExistsPaymentMethod(pays, o, methods) ==
    \E pm \in pays :
        /\ pm.order_id = o.record_id
        /\ pm.payment_method_id \in methods
        /\ pm.is_pay_success = "true"

\* Mutant: the alternatives of the keyword search are joined with and_.
KeywordCondition_And(o, its, pat) ==
    /\ Ilike(Some(o.order_number), pat, DEFAULT_ESCAPE_CHAR)
    /\ Ilike(o.member_name, pat, DEFAULT_ESCAPE_CHAR)
    /\ Ilike(o.member_phone, pat, DEFAULT_ESCAPE_CHAR)
    /\ ExistsItemLike(its, o, pat, DEFAULT_ESCAPE_CHAR)

\* The or_(...) the order_num_or_user search appends: order number, member
\* name, member phone, or an item of the order by sale name or barcode.
KeywordCondition(o, its, pat) ==
    \/ Ilike(Some(o.order_number), pat, DEFAULT_ESCAPE_CHAR)
    \/ Ilike(o.member_name, pat, DEFAULT_ESCAPE_CHAR)
    \/ Ilike(o.member_phone, pat, DEFAULT_ESCAPE_CHAR)
    \/ ExistsItemLike(its, o, pat, DEFAULT_ESCAPE_CHAR)

\* Mutant: the start bound is exclusive.
DateFrom_Exclusive(col, start) == col > start

\* column >= start (create_at_start, business_day_start)
DateFrom(col, start) == col >= start

\* column <= end (create_at_end, business_day_end)
DateUntil(col, end) == col <= end

\* conditions of do_get_local_order_list_info, evaluated on one order: the
\* three fixed conditions, then one condition per "if" of the code, in the
\* order the code appends them (an "if" that is not taken appends nothing).
ListConditions(q, o, pays, its) ==
    LET pat == fuzzy_search_string(q.order_num_or_user.v, DEFAULT_ESCAPE_CHAR)
        opat == RawPattern(q.operater_name_or_phone.v)
    IN  << ~o.disabled,
           o.company_id = q.company_id,
           o.order_source = STORE_ORDER >>
        \o (IF TruthyText(q.order_num_or_user)
            THEN << KeywordCondition(o, its, pat) >>
            ELSE <<>>)
        \o (IF TruthyList(q.store_ids)
            THEN << o.store_team_info_id \in q.store_ids.v >> ELSE <<>>)
        \o (IF TruthyList(q.channel_ids)
            THEN << o.channel_id \in q.channel_ids.v >> ELSE <<>>)
        \o (IF TruthyList(q.states)
            THEN << o.state \in q.states.v >>
            ELSE << o.state \in DefaultStates >>)
        \o (IF TruthyText(q.operater_name_or_phone)
            THEN << \/ Ilike(o.operater_name, opat, SQL_DEFAULT_ESCAPE)
                    \/ Ilike(o.operater_phone, opat, SQL_DEFAULT_ESCAPE)
                    \/ Ilike(o.shopping_guide_name, opat, SQL_DEFAULT_ESCAPE) >>
            ELSE <<>>)
        \o (IF TruthyDate(q.create_at_start)
            THEN << DateFrom(o.created_at, q.create_at_start.v) >> ELSE <<>>)
        \o (IF TruthyDate(q.create_at_end)
            THEN << DateUntil(o.created_at, q.create_at_end.v) >> ELSE <<>>)
        \o (IF TruthyDate(q.business_day_start)
            THEN << DateFrom(o.business_day, q.business_day_start.v) >> ELSE <<>>)
        \o (IF TruthyDate(q.business_day_end)
            THEN << DateUntil(o.business_day, q.business_day_end.v) >> ELSE <<>>)
        \o (IF TruthyList(q.payment_method)
            THEN << ExistsPaymentMethod(pays, o, q.payment_method.v) >>
            ELSE <<>>)

\* The conditions the amount_filter loop of the PC list appends: one per
\* filter whose get_amount_condition is not None.
RECURSIVE AmountConditions(_, _, _)
AmountConditions(filters, o, pays) ==
    IF filters = <<>> THEN <<>>
    ELSE LET condition == get_amount_condition(Head(filters), o, pays)
             rest == AmountConditions(Tail(filters), o, pays)
         IN  IF condition.kind = "pred"
             THEN <<condition.holds>> \o rest
             ELSE rest

\* Whether building the conditions of the PC list raises: some amount filter
\* of a known amount_type names an operator operator_mapping does not hold.
AmountFilterRaises(q) ==
    /\ TruthySeq(q.amount_filter)
    /\ \E i \in DOMAIN q.amount_filter.v :
          /\ q.amount_filter.v[i].amount_type \in AmountTypes
          /\ q.amount_filter.v[i].operator \notin ComparisonOperators

\* conditions of do_get_local_order_pc_list_info, evaluated on one order, in
\* the order the code appends them.
PcListConditions(q, o, pays, its) ==
    LET ppat == fuzzy_search_string(q.product_name.v, DEFAULT_ESCAPE_CHAR)
        upat == RawPattern(q.user_name_or_phone.v)
        opat == RawPattern(q.operater_name_or_phone.v)
    IN  << ~o.disabled,
           o.company_id = q.company_id,
           o.order_source = STORE_ORDER >>
        \o (IF TruthyList(q.store_ids)
            THEN << o.store_team_info_id \in q.store_ids.v >> ELSE <<>>)
        \o (IF TruthyText(q.order_number)
            THEN << Ilike(Some(o.order_number), RawPattern(q.order_number.v),
                          SQL_DEFAULT_ESCAPE) >>
            ELSE <<>>)
        \o (IF TruthyText(q.product_name)
            THEN << ExistsItemLike(its, o, ppat, DEFAULT_ESCAPE_CHAR) >>
            ELSE <<>>)
        \o (IF TruthyList(q.states)
            THEN << o.state \in q.states.v >>
            ELSE << o.state \in DefaultStates >>)
        \o (IF TruthySeq(q.amount_filter)
            THEN AmountConditions(q.amount_filter.v, o, pays) ELSE <<>>)
        \o (IF TruthyList(q.payment_method)
            THEN << ExistsPaymentMethod(pays, o, q.payment_method.v) >>
            ELSE <<>>)
        \o (IF TruthyDate(q.create_at_start)
            THEN << DateFrom(o.created_at, q.create_at_start.v) >> ELSE <<>>)
        \o (IF TruthyDate(q.create_at_end)
            THEN << DateUntil(o.created_at, q.create_at_end.v) >> ELSE <<>>)
        \o (IF TruthyList(q.channel_ids)
            THEN << o.channel_id \in q.channel_ids.v >> ELSE <<>>)
        \o (IF TruthyText(q.user_name_or_phone)
            THEN << \/ Ilike(o.member_name, upat, SQL_DEFAULT_ESCAPE)
                    \/ Ilike(o.member_phone, upat, SQL_DEFAULT_ESCAPE) >>
            ELSE <<>>)
        \o (IF TruthyText(q.operater_name_or_phone)
            THEN << \/ Ilike(o.operater_name, opat, SQL_DEFAULT_ESCAPE)
                    \/ Ilike(o.operater_phone, opat, SQL_DEFAULT_ESCAPE) >>
            ELSE <<>>)
        \o (IF TruthyDate(q.business_day_start)
            THEN << DateFrom(o.business_day, q.business_day_start.v) >> ELSE <<>>)
        \o (IF TruthyDate(q.business_day_end)
            THEN << DateUntil(o.business_day, q.business_day_end.v) >> ELSE <<>>)

\* base_query of do_get_local_order_list_info: the rows of the order table
\* that satisfy and_(*conditions).
ListBaseQuery(q, ords, pays, its) ==
    {o \in ords : AndAll(ListConditions(q, o, pays, its))}

\* base_query of do_get_local_order_pc_list_info.
PcListBaseQuery(q, ords, pays, its) ==
    {o \in ords : AndAll(PcListConditions(q, o, pays, its))}

(***************************************************************************)
(* Result shaping                                                          *)
(***************************************************************************)
\* The display value "-".
Dash == [kind |-> "dash", cents |-> 0, yen |-> FALSE]

\* cast(round(x, 2), String): the amount printed with two decimals, kept as
\* its number of hundredths; yen tells whether the yen sign is prefixed.
AmountText(rounded, yen) ==
    [kind |-> "amount", cents |-> rounded \div 10, yen |-> yen]

\* case((col.is_not(None), cast(round(cast(col, Numeric), 2), String)),
\*      else_="-")
PriceText(col) ==
    IF IsNull(col) THEN Dash ELSE AmountText(Round2(Val(col)), FALSE)

\* Mutant: the CASE lacks its first branch on the state label.
ListReceivePrice_NoStateBranch(o, pays) ==
    LET paid == success_pay_amount(pays, o)
    IN  IF ~IsNull(paid) THEN AmountText(Val(paid), FALSE) ELSE Dash

\* receive_price of the two list operations.
ListReceivePrice(o, pays) ==
    LET paid == success_pay_amount(pays, o)
    IN  IF state_case(o.state) \in {"created", "awaiting_payment"} THEN Dash
        ELSE IF ~IsNull(paid) THEN AmountText(Val(paid), FALSE)
        ELSE Dash

\* receive_price of do_get_local_order_detail_info: total_payment_amount is
\* the unrounded sum, rounded in the main query.
DetailReceivePrice(o, pays) ==
    LET total_payment_amount == SumSuccessPay(pays, o)
    IN  IF state_case(o.state) \in {"created", "awaiting_payment"} THEN Dash
        ELSE IF ~IsNull(total_payment_amount)
        THEN AmountText(Round2(Val(total_payment_amount)), TRUE)
        ELSE Dash

\* receive_price of do_get_local_order_detail_pc_info: total_amount is the
\* rounded sum cast to String in pay_success_total_amount.
DetailPcReceivePrice(o, pays) ==
    LET total_amount == success_pay_amount(pays, o)
    IN  IF state_case(o.state) \in {"created", "awaiting_payment"} THEN Dash
        ELSE IF ~IsNull(total_amount) THEN AmountText(Val(total_amount), TRUE)
        ELSE Dash

\* Mutant: string_agg without distinct joins the name of every row.
StringAggDistinct_EveryRow(rows) ==
    [name \in {pm.payment_method_name : pm \in rows} |->
        Cardinality({pm \in rows : pm.payment_method_name = name})]

\* string_agg(distinct payment_method_name, separator) over payment rows:
\* the label is kept as the names it joins, each with the number of times
\* it occurs between the separators.
StringAggDistinct(rows) ==
    [name \in {pm.payment_method_name : pm \in rows} |-> 1]

\* payment_methods of do_get_local_order_list_info: string_agg(distinct
\* payment_method_name) grouped by order_id over the whole payment table,
\* outer-joined on SaleOrder.record_id (NULL when the order has no payment
\* row).
ListPayChannel(o, pays) ==
    LET rows == {pm \in pays : pm.order_id = o.record_id}
    IN  IF rows = {} THEN Null ELSE Some(StringAggDistinct(rows))

\* payment_methods of do_get_local_order_pc_list_info: the payment rows are
\* first restricted to order_id IN (order_ids), the ids of the page.
PcListPayChannel(o, pays, order_ids) ==
    LET rows == {pm \in pays : pm.order_id \in order_ids
                               /\ pm.order_id = o.record_id}
    IN  IF rows = {} THEN Null ELSE Some(StringAggDistinct(rows))

\* The sequences that hold every element of S exactly once.
RowOrders(S) ==
    {f \in [1..Cardinality(S) -> S] : \A i, j \in DOMAIN f : i # j => f[i] # f[j]}

\* ORDER BY key ASC of PostgreSQL on a nullable key: NULLs last, rows with
\* equal keys in any order.
KeyLeq(a, b) == IsNull(b) \/ (~IsNull(a) /\ Val(a) <= Val(b))

\* The orders a query may return the rows S in, sorted by Key(row)
\* ascending, or descending (NULLs first) when desc.
Orderings(S, Key(_), desc) ==
    {f \in RowOrders(S) :
        \A i, j \in DOMAIN f :
            i < j => IF desc THEN KeyLeq(Key(f[j]), Key(f[i]))
                             ELSE KeyLeq(Key(f[i]), Key(f[j]))}

\* .limit(page_size).offset(offset_count) on an ordered result.
LimitOffset(rows, page_size, offset_count) ==
    SubSeq(rows, offset_count + 1,
           IF offset_count + page_size < Len(rows)
           THEN offset_count + page_size ELSE Len(rows))

\* ORDER BY id on rows with distinct ids.
RECURSIVE SortById(_)
SortById(rows) ==
    IF rows = {} THEN <<>>
    ELSE LET r == CHOOSE x \in rows : \A y \in rows : x.id <= y.id
         IN  <<r>> \o SortById(rows \ {r})

\* The number of statements get_order_items_by_order_number(order_number_list)
\* executes: none for an empty list (it returns {} at once), else the one
\* SELECT ... WHERE order_number = ANY(:order_number).  The PC list returns
\* before the call when its page is empty.
item_queries(order_number_list) == IF order_number_list = {} THEN 0 ELSE 1

\* Mutant: the items are read without the disabled IS FALSE condition.
get_order_items_by_order_number_WithDisabled(order_number_list, its, order_number) ==
    IF order_number_list = {} THEN <<>>
    ELSE SortById({it \in its : /\ it.order_number \in order_number_list
                                /\ it.order_number = order_number})

\* get_order_items_by_order_number(order_number_list)[order_number]: the
\* non-disabled items of the listed order numbers, ORDER BY id, grouped by
\* order_number ({} of the dictionary reads as the empty list).
get_order_items_by_order_number(order_number_list, its, order_number) ==
    IF order_number_list = {} THEN <<>>
    ELSE SortById({it \in its : /\ it.order_number \in order_number_list
                                /\ ~it.disabled
                                /\ it.order_number = order_number})

\* The value of a sequence of decimal digits.
RECURSIVE DigitsValue(_)
DigitsValue(digits) ==
    IF digits = <<>> THEN 0
    ELSE LET last == digits[Len(digits)]
             d == CHOOSE n \in 0..9 :
                     <<"0", "1", "2", "3", "4", "5", "6", "7", "8", "9">>[n + 1] = last
         IN  10 * DigitsValue(SubSeq(digits, 1, Len(digits) - 1)) + d

\* Decimal(text) of a decimal numeral with at most three fraction digits,
\* in thousandths: the digits before the point and those after it.
DecimalOf(text) ==
    LET points == {i \in DOMAIN text : text[i] = "."}
        point == IF points = {} THEN Len(text) + 1
                 ELSE CHOOSE i \in points : TRUE
        fraction == SubSeq(text, point + 1, Len(text))
    IN  1000 * DigitsValue(SubSeq(text, 1, point - 1))
        + DigitsValue(fraction) * <<1000, 100, 10, 1>>[Len(fraction) + 1]

\* order_item.get("purchase_quantity"): None when the key is missing.
GetPurchaseQuantity(order_item) ==
    IF "purchase_quantity" \in DOMAIN order_item
    THEN order_item.purchase_quantity ELSE Null

\* Python truthiness of a quantity: None and the empty string are falsy.
TruthyQuantity(purchase_quantity) ==
    ~IsNull(purchase_quantity) /\ Val(purchase_quantity) # <<>>

\* Mutant: the total is assigned (=) where it should be added to (+=), so
\* the last quantity wins.
RECURSIVE get_total_purchase_quantity_Assign(_)
get_total_purchase_quantity_Assign(order_items) ==
    IF ~TruthySeq(order_items) THEN 0
    ELSE LET n == Len(order_items.v)
             purchase_quantity == GetPurchaseQuantity(order_items.v[n])
         IN  IF TruthyQuantity(purchase_quantity)
             THEN DecimalOf(Val(purchase_quantity))
             ELSE get_total_purchase_quantity_Assign(
                     [order_items EXCEPT !.v = SubSeq(order_items.v, 1, n - 1)])

\* get_total_purchase_quantity(order_items), in thousandths: Decimal("0")
\* when order_items is None or empty, else the total after the loop has
\* added Decimal(purchase_quantity) of every item whose quantity is truthy.
RECURSIVE get_total_purchase_quantity(_)
get_total_purchase_quantity(order_items) ==
    IF ~TruthySeq(order_items) THEN 0
    ELSE LET n == Len(order_items.v)
             purchase_quantity == GetPurchaseQuantity(order_items.v[n])
         IN  get_total_purchase_quantity(
                [order_items EXCEPT !.v = SubSeq(order_items.v, 1, n - 1)])
             + (IF TruthyQuantity(purchase_quantity)
                THEN DecimalOf(Val(purchase_quantity)) ELSE 0)

\* One record of records_list of do_get_local_order_list_info.
ListRecord(o, pays, its, order_numbers) ==
    LET goods == get_order_items_by_order_number(order_numbers, its,
                                                 o.order_number)
    IN  [id                 |-> o.id,
         order_number       |-> o.order_number,
         total_origin_price |-> PriceText(o.total_origin_price),
         discount_price     |-> PriceText(o.discount_price),
         receive_price      |-> ListReceivePrice(o, pays),
         state_name         |-> state_case(o.state),
         pay_channel        |-> ListPayChannel(o, pays),
         goods_info         |-> goods,
         total_purchase_quantity |-> get_total_purchase_quantity(Given(goods))]

\* One record of records_list of do_get_local_order_pc_list_info.
PcListRecord(o, pays, its, order_ids, order_numbers) ==
    LET goods == get_order_items_by_order_number(order_numbers, its,
                                                 o.order_number)
    IN  [id                 |-> o.id,
         order_number       |-> o.order_number,
         total_origin_price |-> PriceText(o.total_origin_price),
         discount_price     |-> PriceText(o.discount_price),
         receive_price      |-> ListReceivePrice(o, pays),
         state_name         |-> state_case(o.state),
         pay_channel        |-> PcListPayChannel(o, pays, order_ids),
         goods_info         |-> goods,
         total_purchase_quantity |-> get_total_purchase_quantity(Given(goods))]

(***************************************************************************)
(* The DAO calls.  A call is made when no call is in progress, reads the   *)
(* tables and leaves its return value in result; the tables never change   *)
(* (the layer has no write path).                                          *)
(***************************************************************************)
Idle == [name |-> "idle"]

NoResult == [status |-> "none"]

Raised(error) == [status |-> "error", error |-> error]

CreatedAtKey(o) == Some(o.created_at)

\* Mutant: the offset of a 0-based page number.
offset_count_ZeroBased(q) == q.page_size * q.page_number

\* offset_count = page_size * (page_number - 1)
offset_count(q) == q.page_size * (q.page_number - 1)

\* The body of do_get_local_order_list_info: the queries it runs and the
\* value it returns, whatever was called before.
list_info(q) ==
    /\ LET base_query == ListBaseQuery(q, orders, payments, items)
       IN  \E ordered \in Orderings(base_query, CreatedAtKey, TRUE) :
             LET page == LimitOffset(ordered, q.page_size, offset_count(q))
                 order_numbers == {page[i].order_number : i \in DOMAIN page}
             IN  /\ call' = [name |-> "list", arg |-> q,
                             base_ids |-> {o.id : o \in base_query},
                             item_queries |-> item_queries(order_numbers)]
                 /\ result' =
                      [status       |-> "ok",
                       records_list |-> [i \in DOMAIN page |->
                                           ListRecord(page[i], payments, items,
                                                      order_numbers)],
                       all_count    |-> Cardinality(base_query)]
    /\ UNCHANGED <<orders, payments, items, refundMap, returns,
                 refundPayments, returnItems>>

do_get_local_order_list_info(q) == call = Idle /\ list_info(q)

\* sum(cast(col, Numeric)) over rows, NULLs skipped; col maps each row to
\* its nullable column value.
RECURSIVE SumColumn(_, _)
SumColumn(rows, col) ==
    IF rows = {} THEN 0
    ELSE LET r == CHOOSE x \in rows : TRUE
         IN  (IF IsNull(col[r]) THEN 0 ELSE Val(col[r]))
             + SumColumn(rows \ {r}, col)

\* amount_data of the PC list: the totals over base_query (coalesce(..., 0)),
\* in hundredths.
PcAmountData(base_query, pays) ==
    [total_price          |->
        Round2(SumColumn(base_query,
               [o \in base_query |-> o.total_origin_price])) \div 10,
     total_discount_price |->
        Round2(SumColumn(base_query,
               [o \in base_query |-> o.discount_price])) \div 10,
     total_receive_price  |->
        Round2(SumColumn(base_query,
               [o \in base_query |-> success_pay_amount(pays, o)])) \div 10,
     total_count          |-> Cardinality(base_query)]

EmptyAmountData ==
    [total_price |-> 0, total_discount_price |-> 0,
     total_receive_price |-> 0, total_count |-> 0]

\* Whether order_query orders by a column of pay_amount_sub, which it joins.
\* Every other branch orders by a column of the SaleOrder table, which is
\* not in the FROM list of order_query (it selects from the base_order CTE
\* alone, and ORDER BY adds no FROM entry): the database rejects the
\* statement and the call raises.
PcOrderByInFrom(q) == q.receive_price # ""

\* The body of do_get_local_order_pc_list_info.  amount_data is built with
\* dict(amount_count_result.fetchone() or {}): dict() of a result row works
\* where the row is a mapping (SQLAlchemy 1.4) and raises TypeError where it
\* is a plain tuple (SQLAlchemy 2.0); the source pins neither, so both
\* outcomes are kept.
pc_list_info(q) ==
    /\ UNCHANGED <<orders, payments, items, refundMap, returns,
                 refundPayments, returnItems>>
    /\ IF AmountFilterRaises(q)
       THEN /\ call' = [name |-> "pc_list", arg |-> q, base_ids |-> {},
                        item_queries |-> 0]
            /\ result' = Raised("KeyError")
       ELSE IF ~PcOrderByInFrom(q)
       THEN /\ call' = [name |-> "pc_list", arg |-> q, base_ids |-> {},
                        item_queries |-> 0]
            /\ result' = Raised("ProgrammingError")
       ELSE LET base_query == PcListBaseQuery(q, orders, payments, items)
                PaidKey(o) == success_pay_amount(payments, o)
                \* id_rows is read for the ids and the order numbers it
                \* holds only: the pages are told apart by their rows.
                id_pages ==
                    {{ordered[i] : i \in DOMAIN ordered} :
                        ordered \in
                          {LimitOffset(f, q.page_size, offset_count(q)) :
                              f \in Orderings(base_query, PaidKey,
                                              q.receive_price = "descend")}}
            IN  \E id_rows \in id_pages :
                  LET order_ids == {r.id : r \in id_rows}
                      order_numbers == {r.order_number : r \in id_rows}
                  IN  /\ call' = [name |-> "pc_list", arg |-> q,
                                  base_ids |-> {o.id : o \in base_query},
                                  item_queries |-> item_queries(order_numbers)]
                      /\ IF order_ids = {}
                         THEN result' = [status       |-> "ok",
                                         records_list |-> <<>>,
                                         amount_data  |-> EmptyAmountData]
                         ELSE \* main_query has no ORDER BY: its rows come
                              \* back in any order.
                              \/ \E rows \in RowOrders({o \in orders :
                                                      o.id \in order_ids}) :
                                   result' =
                                     [status       |-> "ok",
                                      records_list |-> [i \in DOMAIN rows |->
                                          PcListRecord(rows[i], payments, items,
                                                       order_ids, order_numbers)],
                                      amount_data  |->
                                          PcAmountData(base_query, payments)]
                              \/ result' = Raised("TypeError")

do_get_local_order_pc_list_info(q) == call = Idle /\ pc_list_info(q)

\* The row of the order table a detail operation reads.
DetailRows(record_id, company_id) ==
    {o \in orders : ~o.disabled /\ o.company_id = company_id
                    /\ o.id = record_id}

SortKey(pm) == Some(pm.sort)

\* payment_info of do_get_local_order_detail_info: array_agg(... ORDER BY
\* sort ASC) over the successful payments, NULL without any.
DetailPaymentInfos(o) ==
    LET rows == SuccessPaymentRows(payments, o)
    IN  IF rows = {} THEN {Null}
        ELSE {Some([i \in DOMAIN f |->
                      [method |-> f[i].payment_method_name,
                       amount |-> f[i].payment_amount]]) :
                f \in Orderings(rows, SortKey, FALSE)}

do_get_local_order_detail_info(record_id, company_id) ==
    /\ call = Idle
    /\ UNCHANGED <<orders, payments, items, refundMap, returns,
                 refundPayments, returnItems>>
    /\ call' = [name |-> "detail",
                arg |-> [record_id |-> record_id, company_id |-> company_id]]
    /\ LET rows == DetailRows(record_id, company_id)
       IN  IF rows = {}
           THEN result' = [status |-> "ok", found |-> FALSE]
           ELSE \E o \in rows : \E payment_info \in DetailPaymentInfos(o) :
                  result' =
                    [status |-> "ok", found |-> TRUE,
                     record |->
                       [id                 |-> o.id,
                        order_number       |-> o.order_number,
                        state_name         |-> state_case(o.state),
                        total_origin_price |->
                            IF IsNull(o.total_origin_price) THEN Dash
                            ELSE AmountText(Round2(Val(o.total_origin_price)),
                                            TRUE),
                        discount_price     |->
                            IF IsNull(o.discount_price) THEN Dash
                            ELSE AmountText(Round2(Val(o.discount_price)),
                                            TRUE),
                        pay_channel        |-> payment_info,
                        receive_price      |-> DetailReceivePrice(o, payments)]]

\* The rows of base_data of do_get_local_order_detail_pc_info for one order:
\* one row per distinct (payment_amount, payment_method_name, sort) of its
\* successful payments (the GROUP BY), or one row of NULLs without any.
\* pay_channel is a window aggregate ORDER BY sort ASC: the row of a payment
\* holds the payments up to and including its peers, in sort order.
DetailPcPayChannels(o) ==
    LET pays == SuccessPaymentRows(payments, o)
        groups == {[payment_amount      |-> pm.payment_amount,
                    payment_method_name |-> pm.payment_method_name,
                    sort                |-> pm.sort] : pm \in pays}
        zero == state_case(o.state) \in {"pay_anomaly", "pay_failed"}
    IN  IF groups = {} THEN {Null}
        ELSE UNION {
               {Some(LET upto == SelectSeq(f, LAMBDA g : g.sort <= f[k].sort)
                     IN  [i \in DOMAIN upto |->
                            [method |-> upto[i].payment_method_name,
                             amount |-> IF zero THEN 0
                                        ELSE upto[i].payment_amount]]) :
                  k \in DOMAIN f} :
               f \in Orderings(groups, SortKey, FALSE)}

do_get_local_order_detail_pc_info(record_id, company_id) ==
    /\ call = Idle
    /\ UNCHANGED <<orders, payments, items, refundMap, returns,
                 refundPayments, returnItems>>
    /\ call' = [name |-> "detail_pc",
                arg |-> [record_id |-> record_id, company_id |-> company_id]]
    /\ LET rows == DetailRows(record_id, company_id)
       IN  IF rows = {}
           THEN result' = [status |-> "ok", found |-> FALSE]
           ELSE \E o \in rows : \E pay_channel \in DetailPcPayChannels(o) :
                  result' =
                    [status |-> "ok", found |-> TRUE,
                     record |->
                       [order_number  |-> o.order_number,
                        state_name    |-> state_case(o.state),
                        total_origin_price |->
                            IF IsNull(o.total_origin_price)
                               \/ o.total_origin_price = Some(0) THEN Dash
                            ELSE AmountText(Round2(Val(o.total_origin_price)),
                                            TRUE),
                        discount_price |->
                            IF IsNull(o.discount_price)
                               \/ o.discount_price = Some(0) THEN Dash
                            ELSE AmountText(Round2(Val(o.discount_price)),
                                            TRUE),
                        pay_channel   |-> pay_channel,
                        receive_price |-> DetailPcReceivePrice(o, payments)]]

\* SaleOrder JOIN SaleOrderItem ON SaleOrder.record_id =
\* SaleOrderItem.order_id, for the order rows a detail operation reads.
DetailItemRows(record_id, company_id) ==
    {it \in items : \E o \in DetailRows(record_id, company_id) :
                        it.order_id = o.record_id}

\* sum(cast(purchase_quantity, Numeric)) over item rows, in thousandths:
\* NULL quantities are skipped, and the sum of no value is NULL.
RECURSIVE SumQuantity(_)
SumQuantity(rows) ==
    IF rows = {} THEN Null
    ELSE LET r == CHOOSE x \in rows : TRUE
             rest == SumQuantity(rows \ {r})
         IN  IF IsNull(r.purchase_quantity) THEN rest
             ELSE Some(DecimalOf(Val(r.purchase_quantity))
                       + (IF IsNull(rest) THEN 0 ELSE Val(rest)))

\* do_get_goods_price_statistic: summary_query selects aggregates only and
\* has no GROUP BY, so it returns exactly one row, of NULLs when no order
\* row is joined; the row is returned as a dictionary without a check.
\* total_quantity and total_price (min(SaleOrder.total_origin_price)) stand
\* for the columns of the row; the other sums are NULL in the same case.
do_get_goods_price_statistic(record_id, company_id) ==
    /\ call = Idle
    /\ UNCHANGED <<orders, payments, items, refundMap, returns,
                 refundPayments, returnItems>>
    /\ call' = [name |-> "goods_price_statistic",
                arg |-> [record_id |-> record_id, company_id |-> company_id]]
    /\ LET rows == DetailItemRows(record_id, company_id)
       IN  result' =
             [status |-> "ok", found |-> TRUE,
              record |->
                [total_quantity |-> SumQuantity(rows),
                 total_price    |->
                    IF rows = {} THEN Null
                    ELSE (CHOOSE o \in DetailRows(record_id, company_id) :
                             TRUE).total_origin_price]]

\* do_get_order_base_price_info: price_base_info holds one row per order
\* row read (GROUP BY SaleOrder.id), the other CTEs are outer-joined to it;
\* without a row the operation returns None.  payment_amount, the sum of
\* the successful payments, stands for the columns of the row.
do_get_order_base_price_info(record_id, company_id) ==
    /\ call = Idle
    /\ UNCHANGED <<orders, payments, items, refundMap, returns,
                 refundPayments, returnItems>>
    /\ call' = [name |-> "base_price",
                arg |-> [record_id |-> record_id, company_id |-> company_id]]
    /\ LET rows == DetailRows(record_id, company_id)
       IN  IF rows = {}
           THEN result' = [status |-> "ok", found |-> FALSE]
           ELSE \E o \in rows :
                  result' =
                    [status |-> "ok", found |-> TRUE,
                     record |-> [payment_amount |-> SumSuccessPay(payments, o)]]

\* func.concat(yen sign, col) on a stored amount text: the text as stored,
\* not rounded (in thousandths); concat skips a NULL argument and leaves
\* the sign alone.
ConcatYen(col) ==
    [kind |-> "stored", null |-> IsNull(col),
     thousandths |-> IF IsNull(col) THEN 0 ELSE Val(col)]

\* json.loads(text) on the texts the item rows hold: an empty array, an
\* empty object or a number parse, any other text raises JSONDecodeError.
JsonLoads(text) ==
    IF text = <<"[", "]">> THEN [ok |-> TRUE, value |-> "array"]
    ELSE IF text = <<"{", "}">> THEN [ok |-> TRUE, value |-> "object"]
    ELSE IF text # <<>> /\ \A i \in DOMAIN text :
               text[i] \in {"0", "1", "2", "3", "4", "5", "6", "7", "8", "9"}
    THEN [ok |-> TRUE, value |-> "number"]
    ELSE [ok |-> FALSE, value |-> "none"]

\* The record do_get_order_detail_pc_items builds for one item row: the
\* goods_discounts text (jsonb_extract_path_text of extra) is replaced by
\* its parsed value when it is truthy.
PcItemRecord(it) ==
    [id                   |-> it.id,
     selling_price        |-> ConcatYen(it.selling_price),
     actual_receive_price |-> ConcatYen(it.actual_receive_price),
     goods_discounts      |->
        IF TruthyQuantity(it.goods_discounts)
        THEN Some(JsonLoads(Val(it.goods_discounts)).value)
        ELSE it.goods_discounts]

\* do_get_order_detail_pc_items: the item rows joined to the order (inner
\* join, no ORDER BY), then the loop over the records; json.loads is called
\* without try/except, so the first text it cannot parse ends the call.
do_get_order_detail_pc_items(record_id, company_id) ==
    /\ call = Idle
    /\ UNCHANGED <<orders, payments, items, refundMap, returns,
                 refundPayments, returnItems>>
    /\ call' = [name |-> "detail_pc_items",
                arg |-> [record_id |-> record_id, company_id |-> company_id]]
    /\ LET rows == DetailItemRows(record_id, company_id)
       IN  IF \E it \in rows : /\ TruthyQuantity(it.goods_discounts)
                               /\ ~JsonLoads(Val(it.goods_discounts)).ok
           THEN result' = Raised("JSONDecodeError")
           ELSE \E f \in RowOrders(rows) :
                  result' = [status  |-> "ok",
                             records |-> [i \in DOMAIN f |-> PcItemRecord(f[i])]]

\* The caller maps a refund id through the precomputed success map.
ConvertAggregatedRefund(refund_id) ==
    /\ call = Idle
    /\ UNCHANGED <<orders, payments, items, refundMap, returns,
                 refundPayments, returnItems>>
    /\ call' = [name |-> "refund_code", arg |-> refund_id]
    /\ result' = [status |-> "ok",
                  code |-> convert_aggregated_refund_result_code(refund_id,
                                                                 refundMap)]

\* The call returns to its caller; the next request may start.
Return ==
    /\ call # Idle
    /\ call' = Idle
    /\ result' = NoResult
    /\ UNCHANGED <<orders, payments, items, refundMap, returns,
                 refundPayments, returnItems>>

(***************************************************************************)
(* Bounds and input sets                                                   *)
(***************************************************************************)
MaxOrders == 2

MaxPayments == 2

MaxRefundIds == 3

OrderIds == 1..MaxOrders

RefundIds == 1..MaxRefundIds

\* An order every filter value used below lets through: company 1, a store
\* order in an allowed state, without member, created on day 2.
BaseOrder(id) ==
    [id                  |-> id,
     record_id           |-> id,
     company_id          |-> 1,
     disabled            |-> FALSE,
     order_source        |-> STORE_ORDER,
     state               |-> 4,
     order_number        |-> <<"n", "b">>,
     member_name         |-> Null,
     member_phone        |-> Null,
     operater_name       |-> Null,
     operater_phone      |-> Null,
     shopping_guide_name |-> Null,
     store_team_info_id  |-> 1,
     channel_id          |-> 1,
     created_at          |-> 2,
     business_day        |-> 2,
     total_origin_price  |-> Some(20000),
     discount_price      |-> Some(5000)]

\* A request that supplies nothing but the company and the first page; the
\* PC list is asked to sort by received amount.
BaseQuery ==
    [company_id             |-> 1,
     order_num_or_user      |-> NoneText,
     store_ids              |-> None,
     channel_ids            |-> None,
     states                 |-> None,
     operater_name_or_phone |-> NoneText,
     create_at_start        |-> NoneDate,
     create_at_end          |-> NoneDate,
     business_day_start     |-> NoneDate,
     business_day_end       |-> NoneDate,
     payment_method         |-> None,
     order_number           |-> NoneText,
     product_name           |-> NoneText,
     user_name_or_phone     |-> NoneText,
     amount_filter          |-> NoneSeq,
     receive_price          |-> "ascend",
     total_origin_price     |-> "",
     discount_price         |-> "",
     page_size              |-> MaxOrders,
     page_number            |-> 1]

(***************************************************************************)
(* Spec: the received amount.  Orders in every state the receive_price     *)
(* CASE distinguishes, with payment rows of every success flag.            *)
(***************************************************************************)
PayStates == {0, 1, 4}

PayAmounts == {12345, 7655}

SuccessFlags == {"true", "false", "null"}

PaymentMethodName(method_id) == IF method_id = 1 THEN "cash" ELSE "card"

\* record_id is the natural key the other tables refer to; shift tells how
\* far it is from the surrogate id.
\* Order 1 is in any of the states; the other orders are paid.
PayOrderTables ==
    {{[BaseOrder(i) EXCEPT !.state = IF i = 1 THEN st ELSE 4,
                           !.record_id = i + shift] : i \in OrderIds} :
        st \in PayStates, shift \in {0, 1}}

PaymentRows(order_ids) ==
    [order_id : order_ids, payment_amount : PayAmounts,
     is_pay_success : SuccessFlags, payment_method_id : {1}, sort : {1}]

\* A rank that tells the payment rows apart.
RowRank(r) ==
    1000000 * r.order_id + 10 * r.payment_amount
    + (IF r.is_pay_success = "true" THEN 0
       ELSE IF r.is_pay_success = "false" THEN 1 ELSE 2)

\* The payment tables of 0..MaxPayments rows, ids 1..n.  No query reads the
\* id of a payment row, so one numbering per multiset of rows is kept: the
\* one in rank order.
PaymentTables(rows) ==
    UNION {{{[id                  |-> i,
              order_id            |-> f[i].order_id,
              payment_amount      |-> f[i].payment_amount,
              is_pay_success      |-> f[i].is_pay_success,
              payment_method_id   |-> f[i].payment_method_id,
              payment_method_name |-> PaymentMethodName(f[i].payment_method_id),
              sort                |-> f[i].sort] : i \in 1..n} :
            f \in {g \in [1..n -> rows] :
                     \A a, b \in 1..n :
                        a < b => RowRank(g[a]) <= RowRank(g[b])}} :
           n \in 0..MaxPayments}

\* The sum of the two amounts, as an amount filter on the received amount.
ReceivedAtLeast ==
    [amount_type |-> "receive_price", operator |-> "GTE", value |-> 20000]

PayQueries ==
    {[BaseQuery EXCEPT !.states = st, !.amount_filter = af,
                       !.receive_price = srt] :
        st \in {None, Given(PayStates)},
        af \in {NoneSeq, Given(<<ReceivedAtLeast>>)},
        srt \in {"", "ascend", "descend"}}

\* The payment rows belong to the first two orders.
Init ==
    /\ orders \in PayOrderTables
    /\ payments \in PaymentTables(
          PaymentRows({o.record_id : o \in {x \in orders : x.id <= 2}}))
    /\ items = {}
    /\ refundMap = <<>>
    /\ NoRefunds
    /\ call = Idle
    /\ result = NoResult

Next ==
    \/ \E q \in PayQueries : do_get_local_order_list_info(q)
    \/ \E q \in PayQueries : do_get_local_order_pc_list_info(q)
    \/ \E id \in OrderIds :
          do_get_local_order_detail_info(id, BaseQuery.company_id)
    \/ \E id \in OrderIds :
          do_get_local_order_detail_pc_info(id, BaseQuery.company_id)
    \/ Return

Spec == Init /\ [][Next]_vars

(***************************************************************************)
(* Claims checked under Spec                                               *)
(***************************************************************************)
ReturnedList == call.name \in {"list", "pc_list"} /\ result.status = "ok"

ReturnedDetail ==
    call.name \in {"detail", "detail_pc"} /\ result.status = "ok"
    /\ result.found

OrderOfId(id) == CHOOSE o \in orders : o.id = id

\* The order's state label is "created" or "awaiting payment".
Pending(o) == get_state_name(o.state) \in {"created", "awaiting_payment"}

HasSuccessfulPayment(o) ==
    \E pm \in payments : pm.order_id = o.record_id /\ pm.is_pay_success = "true"

\* C1: in every list and detail operation that returns receive_price, an
\* order whose state label is "created" or "awaiting payment" has
\* receive_price "-", whatever successful payment rows exist for it.
C1_PendingShowsDash ==
    /\ ReturnedList =>
         \A i \in DOMAIN result.records_list :
            Pending(OrderOfId(result.records_list[i].id))
               => result.records_list[i].receive_price = Dash
    /\ ReturnedDetail =>
         (Pending(OrderOfId(call.arg.record_id))
            => result.record.receive_price = Dash)

\* A list call returned an awaiting-payment order that has a successful
\* payment row, and shows "-" for it.
C1_Witness ==
    /\ ReturnedList
    /\ \E i \in DOMAIN result.records_list :
          LET o == OrderOfId(result.records_list[i].id)
          IN  /\ get_state_name(o.state) = "awaiting_payment"
              /\ HasSuccessfulPayment(o)
              /\ result.records_list[i].receive_price = Dash

\* The amount of payment row number i when it is a successful payment of
\* order o, else nothing.
PaidBy(i, o) ==
    IF \E pm \in payments : pm.id = i /\ pm.order_id = o.record_id
                            /\ pm.is_pay_success = "true"
    THEN (CHOOSE pm \in payments : pm.id = i).payment_amount
    ELSE 0

RECURSIVE PaidUpTo(_, _)
PaidUpTo(n, o) == IF n = 0 THEN 0 ELSE PaidBy(n, o) + PaidUpTo(n - 1, o)

\* The sum of payment_amount over the successful payment rows of o.
ExpectedPaid(o) == PaidUpTo(Cardinality(payments), o)

\* cents (hundredths) is amount (thousandths) rounded to two decimals.
IsRounded(cents, amount) ==
    10 * cents - 5 <= amount /\ amount < 10 * cents + 5

\* text shows the received amount of o.
ShowsPaid(text, o) ==
    IF HasSuccessfulPayment(o)
    THEN text.kind = "amount" /\ IsRounded(text.cents, ExpectedPaid(o))
    ELSE text = Dash

RECURSIVE SumOfCents(_)
SumOfCents(os) ==
    IF os = {} THEN 0
    ELSE LET o == CHOOSE x \in os : TRUE
             c == CHOOSE c \in 0..(ExpectedPaid(o) \div 10 + 1) :
                     IsRounded(c, ExpectedPaid(o))
         IN  c + SumOfCents(os \ {o})

\* C2: the received amount of an order is the sum of payment_amount over
\* exactly the order's payment rows whose is_pay_success flag is true (rows
\* flagged false or null never contribute): in receive_price of the lists
\* and details, in total_receive_price of the PC list, and in the value a
\* receive_price amount filter compares.
C2_ReceivedIsSumOfSuccessful ==
    /\ ReturnedList =>
         \A i \in DOMAIN result.records_list :
            LET o == OrderOfId(result.records_list[i].id)
            IN  ~Pending(o) => ShowsPaid(result.records_list[i].receive_price, o)
    /\ ReturnedDetail =>
         LET o == OrderOfId(call.arg.record_id)
         IN  ~Pending(o) => ShowsPaid(result.record.receive_price, o)
    /\ (call.name = "pc_list" /\ result.status = "ok"
        /\ result.records_list # <<>>) =>
         result.amount_data.total_receive_price =
            SumOfCents({o \in orders : o.id \in call.base_ids})
    /\ (call.name = "pc_list" /\ result.status = "ok"
        /\ call.arg.amount_filter = Given(<<ReceivedAtLeast>>)) =>
         \A o \in orders :
            o.id \in call.base_ids =>
               HasSuccessfulPayment(o) /\ ExpectedPaid(o) >= ReceivedAtLeast.value

\* A list call returned an order with a successful and an unsuccessful
\* payment row and shows the amount of the successful one alone.
C2_Witness ==
    /\ ReturnedList
    /\ \E i \in DOMAIN result.records_list :
          LET o == OrderOfId(result.records_list[i].id)
          IN  /\ ~Pending(o)
              /\ \E p1, p2 \in payments :
                    /\ p1.order_id = o.record_id /\ p2.order_id = o.record_id
                    /\ p1.is_pay_success = "true"
                    /\ p2.is_pay_success \in {"false", "null"}
                    /\ result.records_list[i].receive_price
                          = AmountText(Round2(p1.payment_amount), FALSE)

(***************************************************************************)
(* SpecRefundCode: convert_aggregated_refund_result_code on every success  *)
(* map over the refund ids.                                                *)
(***************************************************************************)
RefundMaps ==
    UNION {[ids -> SuccessFlags] : ids \in SUBSET RefundIds}

InitRefundCode ==
    /\ orders = {}
    /\ payments = {}
    /\ items = {}
    /\ refundMap \in RefundMaps
    /\ NoRefunds
    /\ call = Idle
    /\ result = NoResult

NextRefundCode ==
    \/ \E refund_id \in RefundIds : ConvertAggregatedRefund(refund_id)
    \/ Return

SpecRefundCode == InitRefundCode /\ [][NextRefundCode]_vars

\* C3: the code is 0 exactly when refund_id is no key of the map, 1 exactly
\* when it is a key whose value is None, 2 when the value is true and 3 when
\* it is false; a key present with value None never yields 0 or 3.
C3_RefundCode ==
    call.name = "refund_code" =>
        LET present == call.arg \in DOMAIN refundMap
        IN  /\ result.code \in 0..3
            /\ (result.code = 0) <=> ~present
            /\ (result.code = 1) <=> (present /\ refundMap[call.arg] = "null")
            /\ (present /\ refundMap[call.arg] = "true") => result.code = 2
            /\ (present /\ refundMap[call.arg] = "false") => result.code = 3

\* The code of a refund id whose map value is None was computed, beside a
\* failed and an absent refund in the same map.
C3_Witness ==
    /\ call.name = "refund_code"
    /\ call.arg \in DOMAIN refundMap
    /\ refundMap[call.arg] = "null"
    /\ result.code = 1
    /\ \E other \in DOMAIN refundMap : refundMap[other] = "false"
    /\ DOMAIN refundMap # RefundIds

(***************************************************************************)
(* SpecFilter: the filter sets of the two list operations.  Order 1 is the *)
(* base order changed in one column (or with one item or payment row), the *)
(* other orders are base orders; a request supplies at most MaxSupplied    *)
(* optional fields.                                                        *)
(***************************************************************************)
MaxSupplied == 2

A == <<"a">>

FilterOrderVariants ==
    LET b == BaseOrder(1)
    IN  {b,
         [b EXCEPT !.disabled = TRUE],
         [b EXCEPT !.company_id = 2],
         [b EXCEPT !.order_source = "online_order"],
         [b EXCEPT !.state = 1],
         [b EXCEPT !.state = 5],
         [b EXCEPT !.state = 7],
         [b EXCEPT !.store_team_info_id = 2],
         [b EXCEPT !.channel_id = 2],
         [b EXCEPT !.created_at = 1],
         [b EXCEPT !.created_at = 3],
         [b EXCEPT !.business_day = 1],
         [b EXCEPT !.business_day = 3],
         [b EXCEPT !.order_number = <<"n", "A">>],
         [b EXCEPT !.member_name = Some(A)],
         [b EXCEPT !.member_phone = Some(A)],
         [b EXCEPT !.operater_name = Some(A)],
         [b EXCEPT !.operater_phone = Some(A)],
         [b EXCEPT !.shopping_guide_name = Some(A)],
         [b EXCEPT !.total_origin_price = Null],
         [b EXCEPT !.total_origin_price = Some(30000)]}

Item(id, o, disabled, name, barcode) ==
    [id |-> id, record_id |-> id, order_id |-> o.record_id,
     order_number |-> o.order_number,
     disabled |-> disabled, goods_sale_name |-> name, barcode |-> barcode,
     purchase_quantity |-> Some(<<"1">>)]

Payment(id, o, amount, flag, method_id) ==
    [id |-> id, order_id |-> o.record_id, payment_amount |-> amount,
     is_pay_success |-> flag, payment_method_id |-> method_id,
     payment_method_name |-> PaymentMethodName(method_id), sort |-> id]

\* The item and payment tables beside the orders: empty, or one row.
FilterSideTables ==
    LET b == BaseOrder(1)
    IN  {<<{}, {}>>,
         <<{Item(1, b, FALSE, Some(A), Null)}, {}>>,
         <<{Item(1, b, FALSE, Null, Some(A))}, {}>>,
         <<{Item(1, b, TRUE, Some(A), Null)}, {}>>,
         <<{}, {Payment(1, b, 20000, "true", 1)}>>,
         <<{}, {Payment(1, b, 20000, "false", 1)}>>,
         <<{}, {Payment(1, b, 20000, "true", 2)}>>}

ListFields ==
    {"order_num_or_user", "store_ids", "channel_ids", "states",
     "operater_name_or_phone", "create_at_start", "create_at_end",
     "business_day_start", "business_day_end", "payment_method"}

PcFields ==
    {"store_ids", "order_number", "product_name", "states", "amount_filter",
     "payment_method", "create_at_start", "create_at_end", "channel_ids",
     "user_name_or_phone", "operater_name_or_phone", "business_day_start",
     "business_day_end"}

TextFields ==
    {"order_num_or_user", "operater_name_or_phone", "order_number",
     "product_name", "user_name_or_phone"}

DateFields ==
    {"create_at_start", "create_at_end", "business_day_start",
     "business_day_end"}

IdListFields == {"store_ids", "channel_ids", "payment_method"}

TotalAtMost ==
    [amount_type |-> "total_price", operator |-> "LTE", value |-> 20000]

\* The values a request may supply for a field: the empty value first.
FieldValues(f) ==
    CASE f \in TextFields   -> <<Given(<<>>), Given(A)>>
      [] f \in IdListFields -> <<Given({}), Given({1})>>
      [] f = "states"       -> <<Given({}), Given({1, 4}), Given({4, 5})>>
      [] f \in DateFields   -> <<Given(2)>>
      [] f = "amount_filter" -> <<Given(<<>>), Given(<<TotalAtMost>>)>>

\* The None of a field.
FieldNone(f) ==
    CASE f \in TextFields    -> NoneText
      [] f \in DateFields    -> NoneDate
      [] f = "amount_filter" -> NoneSeq
      [] OTHER               -> None

\* A choice of at most MaxSupplied fields among fields, with a value each.
Supplies(fields) ==
    UNION {{c \in [fs -> 1..3] : \A f \in fs : c[f] <= Len(FieldValues(f))} :
             fs \in {x \in SUBSET fields : Cardinality(x) <= MaxSupplied}}

\* BaseQuery with the chosen fields supplied.
Supplied(c) ==
    LET V(f) == IF f \in DOMAIN c THEN FieldValues(f)[c[f]] ELSE BaseQuery[f]
    IN  [BaseQuery EXCEPT
           !.order_num_or_user      = V("order_num_or_user"),
           !.store_ids              = V("store_ids"),
           !.channel_ids            = V("channel_ids"),
           !.states                 = V("states"),
           !.operater_name_or_phone = V("operater_name_or_phone"),
           !.create_at_start        = V("create_at_start"),
           !.create_at_end          = V("create_at_end"),
           !.business_day_start     = V("business_day_start"),
           !.business_day_end       = V("business_day_end"),
           !.payment_method         = V("payment_method"),
           !.order_number           = V("order_number"),
           !.product_name           = V("product_name"),
           !.user_name_or_phone     = V("user_name_or_phone"),
           !.amount_filter          = V("amount_filter")]

ListFilterQueries == {Supplied(c) : c \in Supplies(ListFields)}

PcFilterQueries == {Supplied(c) : c \in Supplies(PcFields)}

\* The variants of order 1 that are combined with every side table; the
\* other variants come with empty side tables.
FilterCrossVariants ==
    {BaseOrder(1), [BaseOrder(1) EXCEPT !.state = 7],
     [BaseOrder(1) EXCEPT !.store_team_info_id = 2]}

InitFilter ==
    /\ \E o1 \in FilterOrderVariants, side \in FilterSideTables :
          /\ o1 \in FilterCrossVariants \/ side = <<{}, {}>>
          /\ orders = {o1} \cup {BaseOrder(i) : i \in 2..MaxOrders}
          /\ items = side[1]
          /\ payments = side[2]
    /\ refundMap = <<>>
    /\ NoRefunds
    /\ call = Idle
    /\ result = NoResult

NextFilter ==
    \/ \E q \in ListFilterQueries : do_get_local_order_list_info(q)
    \/ \E q \in PcFilterQueries : do_get_local_order_pc_list_info(q)
    \/ Return

SpecFilter == InitFilter /\ [][NextFilter]_vars

(***************************************************************************)
(* Claims checked under SpecFilter                                         *)
(***************************************************************************)
\* The model's matched set of the returned call, recomputed for another
\* request q of the same operation.
MatchedIds(name, q) ==
    IF name = "list"
    THEN {o.id : o \in ListBaseQuery(q, orders, payments, items)}
    ELSE {o.id : o \in PcListBaseQuery(q, orders, payments, items)}

FieldsOf(name) == IF name = "list" THEN ListFields ELSE PcFields

\* A field is supplied when it holds a non-empty value.
IsSupplied(q, f) ==
    /\ ~q[f].none
    /\ f \in TextFields => Len(q[f].v) > 0
    /\ f \in IdListFields \cup {"states"} => Cardinality(q[f].v) > 0
    /\ f = "amount_filter" => Len(q[f].v) > 0

SameLetter(c, d) ==
    \/ c = d
    \/ {c, d} = {"a", "A"}
    \/ {c, d} = {"b", "B"}

\* needle occurs in txt, letters compared without case.
Contains(txt, needle) ==
    \E k \in 0..(Len(txt) - Len(needle)) :
        \A j \in 1..Len(needle) : SameLetter(txt[k + j], needle[j])

TextHit(col, needle) == col # Null /\ Contains(Val(col), needle)

ItemHit(o, needle) ==
    \E it \in items :
        /\ it.order_id = o.record_id
        /\ ~it.disabled
        /\ (TextHit(it.goods_sale_name, needle) \/ TextHit(it.barcode, needle))

PaidWith(o, methods) ==
    \E pm \in payments :
        /\ pm.order_id = o.record_id
        /\ pm.is_pay_success = "true"
        /\ pm.payment_method_id \in methods

FixedConditions(q, o) ==
    ~o.disabled /\ o.company_id = q.company_id /\ o.order_source = STORE_ORDER

\* Order o satisfies the supplied filter field f of a request of operation
\* name (the inputs of SpecFilter hold no pattern character).
Satisfies(name, q, f, o) ==
    CASE f = "order_num_or_user" ->
            \/ TextHit(Some(o.order_number), q[f].v)
            \/ TextHit(o.member_name, q[f].v)
            \/ TextHit(o.member_phone, q[f].v)
            \/ ItemHit(o, q[f].v)
      [] f = "store_ids" -> o.store_team_info_id \in q[f].v
      [] f = "channel_ids" -> o.channel_id \in q[f].v
      [] f = "states" -> o.state \in q[f].v
      [] f = "operater_name_or_phone" ->
            \/ TextHit(o.operater_name, q[f].v)
            \/ TextHit(o.operater_phone, q[f].v)
            \/ (name = "list" /\ TextHit(o.shopping_guide_name, q[f].v))
      [] f = "create_at_start" -> o.created_at >= q[f].v
      [] f = "create_at_end" -> o.created_at <= q[f].v
      [] f = "business_day_start" -> o.business_day >= q[f].v
      [] f = "business_day_end" -> o.business_day <= q[f].v
      [] f = "payment_method" -> PaidWith(o, q[f].v)
      [] f = "order_number" -> TextHit(Some(o.order_number), q[f].v)
      [] f = "product_name" -> ItemHit(o, q[f].v)
      [] f = "user_name_or_phone" ->
            TextHit(o.member_name, q[f].v) \/ TextHit(o.member_phone, q[f].v)
      [] f = "amount_filter" ->
            \A k \in DOMAIN q[f].v :
               /\ q[f].v[k] = TotalAtMost
               /\ o.total_origin_price # Null
               /\ Val(o.total_origin_price) <= TotalAtMost.value

SatisfiesSupplied(name, q, o) ==
    \A f \in FieldsOf(name) : IsSupplied(q, f) => Satisfies(name, q, f, o)

AllowList == {4, 5, 6, 8, 9, 10, 11}

\* C4 as stated: an order is matched if and only if it satisfies the three
\* fixed conditions and every supplied filter.
C4_Original ==
    ReturnedList =>
        call.base_ids =
           {o.id : o \in {x \in orders :
                            /\ FixedConditions(call.arg, x)
                            /\ SatisfiesSupplied(call.name, call.arg, x)}}

\* C4, amended: an order is matched if and only if it satisfies the three
\* fixed conditions, the state condition (the supplied states, or the
\* default allow-list when states is not supplied) and every other supplied
\* filter; the alternatives of the free-text search are combined with OR.
C4_MatchedIffAllConditions ==
    ReturnedList =>
        call.base_ids =
           {o.id : o \in {x \in orders :
                            /\ FixedConditions(call.arg, x)
                            /\ IsSupplied(call.arg, "states")
                                  \/ x.state \in AllowList
                            /\ SatisfiesSupplied(call.name, call.arg, x)}}

\* A list call with a free-text search and a store filter matched an order
\* through its member name alone (its order number does not match).
C4_Witness ==
    /\ call.name = "list" /\ result.status = "ok"
    /\ IsSupplied(call.arg, "order_num_or_user")
    /\ IsSupplied(call.arg, "store_ids")
    /\ \E o \in orders :
          /\ o.id \in call.base_ids
          /\ TextHit(o.member_name, call.arg.order_num_or_user.v)
          /\ ~TextHit(Some(o.order_number), call.arg.order_num_or_user.v)
    /\ \E o \in orders : o.id \notin call.base_ids

\* The request with field f not supplied.
WithNone(q, f) == [q EXCEPT ![f] = FieldNone(f)]

\* The request with the None or empty field f given its other spelling:
\* empty for None, None for empty (a date has no empty value).
Respelled(q, f) ==
    IF f \in DateFields THEN q
    ELSE IF q[f].none THEN [q EXCEPT ![f] = FieldValues(f)[1]]
    ELSE WithNone(q, f)

\* The request with every field that is None or empty (states aside) reset
\* to None: the remaining non-empty fields alone.
RECURSIVE Stripped(_, _)
Stripped(q, fs) ==
    IF fs = {} THEN q
    ELSE LET f == CHOOSE x \in fs : TRUE
         IN  Stripped(IF IsSupplied(q, f) \/ f = "states" THEN q
                      ELSE WithNone(q, f), fs \ {f})

\* C5: an optional filter field other than states that is None or empty
\* contributes no predicate: it excludes no order (None and empty select the
\* same orders), and the matched set is the one selected by the remaining
\* non-empty fields alone.
C5_EmptyFieldNoPredicate ==
    ReturnedList =>
        /\ call.base_ids =
              MatchedIds(call.name, Stripped(call.arg, FieldsOf(call.name)))
        /\ \A f \in FieldsOf(call.name) \ ({"states"} \cup DateFields) :
              ~IsSupplied(call.arg, f) =>
                 call.base_ids = MatchedIds(call.name, Respelled(call.arg, f))
        /\ (\A f \in FieldsOf(call.name) \ {"states"} : ~IsSupplied(call.arg, f))
              => \A o \in orders :
                    (FixedConditions(call.arg, o) /\ o.state \in AllowList
                     /\ ~IsSupplied(call.arg, "states"))
                       => o.id \in call.base_ids

\* A list call whose store_ids is the empty list and whose channel filter is
\* supplied matched an order.
C5_Witness ==
    /\ ReturnedList
    /\ call.arg.store_ids = Given({})
    /\ IsSupplied(call.arg, "channel_ids")
    /\ call.base_ids # {}

\* C6: when states is absent or empty only orders whose state is in the
\* allow-list {4, 5, 6, 8, 9, 10, 11} are matched; when states is supplied,
\* exactly the orders whose state is in the supplied list pass the state
\* filter.
C6_StateFilter ==
    ReturnedList =>
        LET any == MatchedIds(call.name,
                              [call.arg EXCEPT !.states = Given(OrderStateCodes)])
            passes == IF IsSupplied(call.arg, "states")
                      THEN call.arg.states.v ELSE AllowList
        IN  call.base_ids = {o.id : o \in {x \in orders : x.id \in any
                                                        /\ x.state \in passes}}

\* A list call without states left out an order in state 7 that every other
\* condition lets through, beside a matched order.
C6_Witness ==
    /\ ReturnedList
    /\ ~IsSupplied(call.arg, "states")
    /\ call.base_ids # {}
    /\ \E o \in orders :
          /\ o.state = 7
          /\ o.id \notin call.base_ids
          /\ o.id \in MatchedIds(call.name, [call.arg EXCEPT !.states = Given({7})])

\* The requests that supply one more field than q.
OneMore(name, q, fields) ==
    {[q EXCEPT ![f] = FieldValues(f)[k]] :
        <<f, k>> \in {x \in fields \X (1..3) :
                        /\ ~IsSupplied(q, x[1])
                        /\ x[2] <= Len(FieldValues(x[1]))
                        /\ IsSupplied([q EXCEPT ![x[1]] = FieldValues(x[1])[x[2]]],
                                      x[1])}}

\* C7 as stated: supplying one more filter field, states included, never
\* increases the number of matched orders.
C7_Original ==
    ReturnedList =>
        \A q2 \in OneMore(call.name, call.arg, FieldsOf(call.name)) :
           Cardinality(MatchedIds(call.name, q2)) <= Cardinality(call.base_ids)

\* C7, amended: supplying one more filter field other than states never
\* increases the number of matched orders (supplying states replaces the
\* default allow-list and may match orders the default left out).
C7_MoreFiltersFewerOrders ==
    ReturnedList =>
        \A q2 \in OneMore(call.name, call.arg, FieldsOf(call.name) \ {"states"}) :
           LET fewer == MatchedIds(call.name, q2)
           IN  /\ fewer \subseteq call.base_ids
               /\ Cardinality(fewer) <= Cardinality(call.base_ids)

\* A list call with one filter matched two orders, and supplying a second
\* filter matches one of them only.
C7_Witness ==
    /\ ReturnedList
    /\ \E f \in FieldsOf(call.name) : IsSupplied(call.arg, f)
    /\ Cardinality(call.base_ids) = 2
    /\ \E q2 \in OneMore(call.name, call.arg, FieldsOf(call.name) \ {"states"}) :
          Cardinality(MatchedIds(call.name, q2)) = 1

WithoutDates(q) ==
    [q EXCEPT !.create_at_start = NoneDate, !.create_at_end = NoneDate,
              !.business_day_start = NoneDate, !.business_day_end = NoneDate]

\* C9: the create-time range and the business-day range are inclusive and
\* each bound is applied independently: an order whose date equals a bound
\* is matched, a start bound alone imposes only >= start, an end bound alone
\* only <= end, and no bound imposes nothing.
C9_DateRanges ==
    ReturnedList =>
        LET q == call.arg
            any == MatchedIds(call.name, WithoutDates(q))
        IN  call.base_ids =
              {o.id : o \in {x \in orders :
                 /\ x.id \in any
                 /\ q.create_at_start.none \/ x.created_at >= q.create_at_start.v
                 /\ q.create_at_end.none \/ x.created_at <= q.create_at_end.v
                 /\ q.business_day_start.none
                       \/ x.business_day >= q.business_day_start.v
                 /\ q.business_day_end.none
                       \/ x.business_day <= q.business_day_end.v}}

\* A list call with a start bound and no end bound matched an order created
\* exactly at the bound and one created after it, and left out one created
\* before it.
C9_Witness ==
    /\ ReturnedList
    /\ ~call.arg.create_at_start.none
    /\ call.arg.create_at_end.none
    /\ \E o \in orders : o.id \in call.base_ids
                         /\ o.created_at = call.arg.create_at_start.v
    /\ \E o \in orders : o.id \notin call.base_ids
                         /\ o.created_at < call.arg.create_at_start.v

(***************************************************************************)
(* SpecText: the text filters on inputs that hold the pattern characters   *)
(* '%' and '_'.  Order 1 is the base order with one text column (or one    *)
(* item row) set; a request supplies one text field.                       *)
(***************************************************************************)
TextValues == {<<"a", "b">>, <<"a", "%">>, <<"a", "_">>, <<"%", "a">>}

TextInputs == {<<"%">>, <<"_">>, <<"a", "%">>, <<"a", "_">>, <<"a">>}

TextOrderVariants ==
    LET b == BaseOrder(1)
    IN  UNION {{[b EXCEPT !.order_number = t],
                [b EXCEPT !.member_name = Some(t)],
                [b EXCEPT !.member_phone = Some(t)],
                [b EXCEPT !.operater_name = Some(t)],
                [b EXCEPT !.operater_phone = Some(t)],
                [b EXCEPT !.shopping_guide_name = Some(t)]} : t \in TextValues}

TextItemTables ==
    {{}} \cup UNION {{{Item(1, BaseOrder(1), FALSE, Some(t), Null)},
                      {Item(1, BaseOrder(1), FALSE, Null, Some(t))}} :
                       t \in TextValues}

ListTextQueries ==
    {[BaseQuery EXCEPT ![f] = Given(t)] :
        f \in TextFields \cap ListFields, t \in TextInputs}

PcTextQueries ==
    {[BaseQuery EXCEPT ![f] = Given(t)] :
        f \in TextFields \cap PcFields, t \in TextInputs}

InitText ==
    /\ \E n \in OrderIds, o1 \in TextOrderVariants :
          orders = {o1} \cup {BaseOrder(i) : i \in 2..n}
    /\ items \in TextItemTables
    /\ payments = {}
    /\ refundMap = <<>>
    /\ NoRefunds
    /\ call = Idle
    /\ result = NoResult

NextText ==
    \/ \E q \in ListTextQueries : do_get_local_order_list_info(q)
    \/ \E q \in PcTextQueries : do_get_local_order_pc_list_info(q)
    \/ Return

SpecText == InitText /\ [][NextText]_vars

\* The text fields whose input goes through fuzzy_search_string.
EscapedFields == {"order_num_or_user", "product_name"}

\* C8: every text filter of the two list operations treats '%' and '_' in
\* the input as literal characters: every matched order holds the input,
\* character for character, in one of the columns the filter searches.
C8_WildcardsLiteral ==
    ReturnedList =>
        \A f \in TextFields \cap FieldsOf(call.name) :
           IsSupplied(call.arg, f) =>
              \A id \in call.base_ids :
                 Satisfies(call.name, call.arg, f, OrderOfId(id))

\* C8 restricted to order_num_or_user and product_name, whose input is
\* escaped: for these the matched orders are exactly those holding the input
\* literally.
C8_EscapedFieldsLiteral ==
    ReturnedList =>
        \A f \in EscapedFields \cap FieldsOf(call.name) :
           IsSupplied(call.arg, f) =>
              call.base_ids =
                 {o.id : o \in {x \in orders :
                                  /\ FixedConditions(call.arg, x)
                                  /\ x.state \in AllowList
                                  /\ Satisfies(call.name, call.arg, f, x)}}

(***************************************************************************)
(* SpecAmount: the amount filters of the PC list.  Order 1 is the base     *)
(* order with one price column changed or with payment rows; a request     *)
(* holds one amount filter comparing with AmountValue.                     *)
(***************************************************************************)
AmountValue == 12345 + 7655

AmountOrderVariants ==
    LET b == BaseOrder(1)
    IN  UNION {{[b EXCEPT !.total_origin_price = p],
                [b EXCEPT !.discount_price = p]} :
                  p \in {Null, Some(AmountValue - 10), Some(AmountValue),
                         Some(AmountValue + 10)}}

AmountPaymentTables ==
    LET b == BaseOrder(1)
    IN  {{},
         {Payment(1, b, AmountValue, "true", 1)},
         {Payment(1, b, 12345, "true", 1), Payment(2, b, 7655, "true", 1)},
         {Payment(1, b, AmountValue - 10, "true", 1)},
         {Payment(1, b, AmountValue + 10, "true", 1)},
         {Payment(1, b, AmountValue, "false", 1)},
         {Payment(1, b, AmountValue, "null", 1)},
         {Payment(1, b, AmountValue, "true", 1), Payment(2, b, 10, "false", 1)}}

AmountQueries ==
    {[BaseQuery EXCEPT !.amount_filter =
         Given(<<[amount_type |-> t, operator |-> op, value |-> AmountValue]>>)] :
        t \in AmountTypes, op \in ComparisonOperators}

InitAmount ==
    /\ \E n \in OrderIds, o1 \in AmountOrderVariants :
          orders = {o1} \cup {BaseOrder(i) : i \in 2..n}
    /\ items = {}
    /\ payments \in AmountPaymentTables
    /\ refundMap = <<>>
    /\ NoRefunds
    /\ call = Idle
    /\ result = NoResult

NextAmount ==
    \/ \E q \in AmountQueries : do_get_local_order_pc_list_info(q)
    \/ Return

SpecAmount == InitAmount /\ [][NextAmount]_vars

\* The amount an amount filter of the given type reads on order o: nothing
\* when the column is NULL or the order has no successful payment.
ComparedAmount(amount_type, o) ==
    IF amount_type = "total_price" THEN o.total_origin_price
    ELSE IF amount_type = "discount_price" THEN o.discount_price
    ELSE IF HasSuccessfulPayment(o) THEN Some(ExpectedPaid(o)) ELSE Null

\* field op value, with the comparison the operator code names.
Compares(op, field, value) ==
    \/ op = "GT"  /\ field > value
    \/ op = "GTE" /\ (field > value \/ field = value)
    \/ op = "LT"  /\ field < value
    \/ op = "LTE" /\ (field < value \/ field = value)
    \/ op = "EQ"  /\ field = value
    \/ op = "NEQ" /\ ~(field = value)

\* C10: for amount_type in {total_price, discount_price, receive_price} and
\* operator in {GT, GTE, LT, LTE, EQ, NEQ}, the amount filter keeps exactly
\* the orders for which 'field op value' holds, with the comparison named by
\* the operator code and with total_price reading total_origin_price,
\* discount_price reading discount_price and receive_price reading the sum
\* of the successful payments.
C10_AmountPredicate ==
    (call.name = "pc_list" /\ result.status = "ok"
     /\ IsSupplied(call.arg, "amount_filter")) =>
        LET af == call.arg.amount_filter.v[1]
            any == MatchedIds("pc_list",
                              [call.arg EXCEPT !.amount_filter = NoneSeq])
        IN  call.base_ids =
              {o.id : o \in {x \in orders :
                 /\ x.id \in any
                 /\ ComparedAmount(af.amount_type, x) # Null
                 /\ Compares(af.operator,
                             Val(ComparedAmount(af.amount_type, x)),
                             af.value)}}

\* A PC list call filtering receive_price >= value matched an order whose
\* two successful payments add up to exactly the value, and left out an
\* order that has no successful payment.
C10_Witness ==
    /\ call.name = "pc_list" /\ result.status = "ok"
    /\ IsSupplied(call.arg, "amount_filter")
    /\ call.arg.amount_filter.v[1].amount_type = "receive_price"
    /\ call.arg.amount_filter.v[1].operator = "GTE"
    /\ \E o \in orders :
          /\ o.id \in call.base_ids
          /\ Cardinality({pm \in payments : pm.order_id = o.record_id
                                            /\ pm.is_pay_success = "true"}) = 2
          /\ ExpectedPaid(o) = call.arg.amount_filter.v[1].value
    /\ \E o \in orders : o.id \notin call.base_ids /\ ~HasSuccessfulPayment(o)

(***************************************************************************)
(* SpecAmountKind: amount filters of unknown amount_type or unknown        *)
(* operator.  The tables are those of SpecAmount; a request holds one or   *)
(* two amount filters.                                                     *)
(***************************************************************************)
\* "coupon_price" is no key of amount_field_mapping, "BETWEEN" no key of
\* operator_mapping.
KindFilters ==
    [amount_type : {"total_price", "receive_price", "coupon_price"},
     operator    : {"GT", "LTE", "BETWEEN"},
     value       : {AmountValue}]

KindQueries ==
    {[BaseQuery EXCEPT !.amount_filter = Given(fs)] :
        fs \in {<<f>> : f \in KindFilters}
               \cup {<<f, g>> : f \in KindFilters, g \in KindFilters}}

NextAmountKind ==
    \/ \E q \in KindQueries : do_get_local_order_pc_list_info(q)
    \/ Return

SpecAmountKind == InitAmount /\ [][NextAmountKind]_vars

KnownAmountType(f) ==
    f.amount_type \in {"total_price", "discount_price", "receive_price"}

KnownOperator(f) == f.operator \in {"GT", "GTE", "LT", "LTE", "EQ", "NEQ"}

\* The request without its amount filters of unknown amount_type.
WithoutUnknownTypes(q) ==
    LET known == SelectSeq(q.amount_filter.v, KnownAmountType)
    IN  [q EXCEPT !.amount_filter =
            IF known = <<>> THEN NoneSeq ELSE Given(known)]

PcCallWithAmountFilter ==
    call.name = "pc_list" /\ IsSupplied(call.arg, "amount_filter")

\* C11: an amount filter whose amount_type is not total_price,
\* discount_price or receive_price is skipped by the PC list: it raises no
\* error (KeyError comes from a filter of known type only), and the matched
\* set is that of the request without the filter.
C11_UnknownTypeSkipped ==
    LET fs == call.arg.amount_filter.v
    IN  (PcCallWithAmountFilter
         /\ \E i \in DOMAIN fs : ~KnownAmountType(fs[i])) =>
           /\ (result = Raised("KeyError")) <=>
                 (\E i \in DOMAIN fs :
                     KnownAmountType(fs[i]) /\ ~KnownOperator(fs[i]))
           /\ result.status = "ok" =>
                 call.base_ids =
                    MatchedIds("pc_list", WithoutUnknownTypes(call.arg))

\* A PC list call with a filter of unknown type next to one of known type
\* returned, and the known filter alone left out an order.
C11_Witness ==
    /\ PcCallWithAmountFilter
    /\ result.status = "ok"
    /\ \E i, j \in DOMAIN call.arg.amount_filter.v :
          /\ ~KnownAmountType(call.arg.amount_filter.v[i])
          /\ KnownAmountType(call.arg.amount_filter.v[j])
    /\ call.base_ids # {}
    /\ \E o \in orders : o.id \notin call.base_ids

\* C12: every amount filter whose operator is not one of the six comparison
\* operators makes the PC list fail with an error, whatever its amount_type:
\* it is never dropped.
C12_UnknownOperatorFails ==
    (PcCallWithAmountFilter
     /\ \E i \in DOMAIN call.arg.amount_filter.v :
           ~KnownOperator(call.arg.amount_filter.v[i]))
        => result.status = "error"

\* C12 for the filters of known amount_type: an unknown operator on one of
\* them raises KeyError, and no query has selected an order.
C12_KnownTypeUnknownOperatorFails ==
    (PcCallWithAmountFilter
     /\ \E i \in DOMAIN call.arg.amount_filter.v :
           /\ KnownAmountType(call.arg.amount_filter.v[i])
           /\ ~KnownOperator(call.arg.amount_filter.v[i]))
        => result = Raised("KeyError") /\ call.base_ids = {}

(***************************************************************************)
(* SpecPage: pagination and ordering.  Every order has one of a few        *)
(* profiles (creation time, state, successfully paid amount), so that      *)
(* orders tie on the sort key and some are left out by the default state   *)
(* list; a request asks for one page of a given size, and the PC list for  *)
(* a sort.  A caller may follow a returned page with a request for the     *)
(* next one, the tables unchanged.                                         *)
(***************************************************************************)
MaxPage == 3

PageProfiles ==
    {[created_at |-> 1, state |-> 4, paid |-> Null],
     [created_at |-> 1, state |-> 4, paid |-> Some(12345)],
     [created_at |-> 2, state |-> 4, paid |-> Some(12345)],
     [created_at |-> 2, state |-> 4, paid |-> Some(7655)],
     [created_at |-> 2, state |-> 1, paid |-> Null]}

PageOrder(id, pr) ==
    [BaseOrder(id) EXCEPT !.created_at = pr.created_at,
                          !.state = pr.state,
                          !.order_number = [i \in 1..id |-> "n"]]

\* The sort fields of QueryParamPCIn: "descend", "ascend" or not supplied.
SortRequests ==
    {[receive_price |-> "ascend",  total_origin_price |-> "", discount_price |-> ""],
     [receive_price |-> "descend", total_origin_price |-> "", discount_price |-> ""],
     [receive_price |-> "descend", total_origin_price |-> "ascend", discount_price |-> ""],
     [receive_price |-> "", total_origin_price |-> "descend", discount_price |-> ""],
     [receive_price |-> "", total_origin_price |-> "", discount_price |-> "ascend"],
     [receive_price |-> "", total_origin_price |-> "", discount_price |-> ""]}

ListPageQueries ==
    {[BaseQuery EXCEPT !.page_size = ps, !.page_number = p] :
        ps \in 1..MaxOrders, p \in 1..MaxPage}

PcPageQueries ==
    {[q EXCEPT !.receive_price = s.receive_price,
               !.total_origin_price = s.total_origin_price,
               !.discount_price = s.discount_price] :
        q \in ListPageQueries, s \in SortRequests}

InitPage ==
    /\ \E pr \in [OrderIds -> PageProfiles] :
          /\ orders = {PageOrder(i, pr[i]) : i \in OrderIds}
          /\ payments =
                {Payment(i, PageOrder(i, pr[i]), Val(pr[i].paid), "true", 1) :
                    i \in {j \in OrderIds : ~IsNull(pr[j].paid)}}
    /\ items = {}
    /\ refundMap = <<>>
    /\ NoRefunds
    /\ call = Idle
    /\ result = NoResult

\* The caller asks for the page after the one just returned.
ListFollowingPage ==
    /\ call # Idle
    /\ call.name = "list"
    /\ result.status = "ok"
    /\ call.arg.page_number < MaxPage
    /\ list_info([call.arg EXCEPT !.page_number = @ + 1])

PcFollowingPage ==
    /\ call # Idle
    /\ call.name = "pc_list"
    /\ result.status = "ok"
    /\ call.arg.page_number < MaxPage
    /\ pc_list_info([call.arg EXCEPT !.page_number = @ + 1])

NextPage ==
    \/ \E q \in ListPageQueries : do_get_local_order_list_info(q)
    \/ \E q \in PcPageQueries : do_get_local_order_pc_list_info(q)
    \/ ListFollowingPage
    \/ PcFollowingPage
    \/ Return

SpecPage == InitPage /\ [][NextPage]_vars

ReturnedPage == call # Idle /\ call.name \in {"list", "pc_list"} /\ result.status = "ok"

\* The ids of the returned records, in the order returned.
RecordIds(res) == [i \in DOMAIN res.records_list |-> res.records_list[i].id]

\* Whether the creation times along f never increase.
NewestFirst(f) ==
    \A i, j \in DOMAIN f : i < j => f[i].created_at >= f[j].created_at

\* Whether f is ordered by the successfully paid amount as requested,
\* unpaid orders after the paid ones when ascending and before them when
\* descending.
ByPaid(f, direction) ==
    \A i, j \in DOMAIN f :
        i < j =>
           LET a == success_pay_amount(payments, f[i])
               b == success_pay_amount(payments, f[j])
           IN  IF direction = "descend" THEN KeyLeq(b, a) ELSE KeyLeq(a, b)

\* The full results of the request of the current call: the matching
\* orders, each once, in an order the requested sort allows.
FullResults ==
    LET matched == {o \in orders : o.id \in MatchedIds(call.name, call.arg)}
    IN  {f \in RowOrders(matched) :
            IF call.name = "list" THEN NewestFirst(f)
            ELSE ByPaid(f, call.arg.receive_price)}

\* The positions page_size*(p-1)+1 .. page_size*p among n rows.
PagePositions(q, n) ==
    {i \in 1..n : /\ q.page_size * (q.page_number - 1) + 1 <= i
                  /\ i <= q.page_size * q.page_number}

\* C13: a returned page of either list operation holds the matching orders
\* at positions page_size*(p-1)+1 .. page_size*p of the ordered full result
\* (in that order in the list, as a set in the PC list, whose record order
\* is another matter), and never more than page_size orders.
C13_PageIsSlice ==
    ReturnedPage =>
       LET q == call.arg
           ids == RecordIds(result)
       IN  /\ Len(ids) <= q.page_size
           /\ \E f \in FullResults :
                 LET pos == PagePositions(q, Len(f))
                 IN  /\ Len(ids) = Cardinality(pos)
                     /\ {ids[i] : i \in DOMAIN ids} = {f[i].id : i \in pos}
                     /\ call.name = "list" =>
                           \A i \in DOMAIN ids :
                              ids[i] = f[q.page_size * (q.page_number - 1) + i].id

\* A second page holding one order was returned, of a result of several.
C13_Witness ==
    /\ ReturnedPage
    /\ call.arg.page_number = 2
    /\ call.arg.page_size = 1
    /\ Len(result.records_list) = 1
    /\ Cardinality(call.base_ids) > 1

\* C14: each list operation returns, beside records_list, the number of
\* matching orders under the key all_count, the same for every page_number,
\* also past the last matching order.
C14_AllCountOnEveryPage ==
    ReturnedPage =>
       /\ "all_count" \in DOMAIN result
       /\ result.all_count = Cardinality(MatchedIds(call.name, call.arg))

\* C14 for do_get_local_order_list_info alone: all_count is the number of
\* matching orders on every page.
C14_ListAllCount ==
    (ReturnedPage /\ call.name = "list") =>
       /\ "all_count" \in DOMAIN result
       /\ result.all_count = Cardinality(MatchedIds("list", call.arg))

\* The total the PC list does return, amount_data.total_count, taken for
\* all_count: the number of matching orders on every page.
C14_PcTotalCountOnEveryPage ==
    (ReturnedPage /\ call.name = "pc_list") =>
       result.amount_data.total_count =
          Cardinality(MatchedIds("pc_list", call.arg))

\* A returned page is followed by the returned next page of the same
\* request.
FollowingPageReturned ==
    /\ ReturnedPage
    /\ call'.name = call.name
    /\ result'.status = "ok"
    /\ call'.arg = [call.arg EXCEPT !.page_number = @ + 1]

IdsOf(res) == {res.records_list[i].id : i \in DOMAIN res.records_list}

\* C15: over unchanged tables, with fixed filters and page_size, the pages
\* 1, 2, 3, ... hold every matching order exactly once, also when matching
\* orders tie on the sort key: two consecutive pages share no order, and
\* the first two pages hold every matching order when there are no more
\* than two pages of them.
C15_NoDuplicateNoGap ==
    [][FollowingPageReturned =>
          /\ IdsOf(result) \cap IdsOf(result') = {}
          /\ (/\ call.arg.page_number = 1
              /\ Cardinality(call.base_ids) <= 2 * call.arg.page_size) =>
                 IdsOf(result) \cup IdsOf(result') = call.base_ids]_vars

\* No two matching orders of the current call have the same sort key.
DistinctSortKeys ==
    \A a, b \in {o \in orders : o.id \in call.base_ids} :
        a.id # b.id =>
           IF call.name = "list" THEN a.created_at # b.created_at
           ELSE success_pay_amount(payments, a) # success_pay_amount(payments, b)

\* C15 where the matching orders have distinct sort keys: consecutive pages
\* then share no order and leave none out.
C15_DistinctKeysNoDuplicateNoGap ==
    [][(FollowingPageReturned /\ DistinctSortKeys) =>
          /\ IdsOf(result) \cap IdsOf(result') = {}
          /\ (/\ call.arg.page_number = 1
              /\ Cardinality(call.base_ids) <= 2 * call.arg.page_size) =>
                 IdsOf(result) \cup IdsOf(result') = call.base_ids]_vars

\* Whether the records f are in the order the PC request q asks for:
\* receive_price before total_origin_price before discount_price, and
\* descending creation time when none is requested.
InRequestedOrder(f, q) ==
    LET direction == IF q.receive_price # "" THEN q.receive_price
                     ELSE IF q.total_origin_price # "" THEN q.total_origin_price
                     ELSE IF q.discount_price # "" THEN q.discount_price
                     ELSE "descend"
        SortKeyOf(o) == IF q.receive_price # "" THEN success_pay_amount(payments, o)
                        ELSE IF q.total_origin_price # "" THEN o.total_origin_price
                        ELSE IF q.discount_price # "" THEN o.discount_price
                        ELSE Some(o.created_at)
    IN  \A i, j \in DOMAIN f :
           i < j => IF direction = "descend"
                    THEN KeyLeq(SortKeyOf(f[j]), SortKeyOf(f[i]))
                    ELSE KeyLeq(SortKeyOf(f[i]), SortKeyOf(f[j]))

\* C16: the records a PC list call returns are in the requested order: by
\* received amount, else total_origin_price, else discount_price as
\* requested, and by descending creation time when no sort is requested.
C16_RecordsInRequestedOrder ==
    (call # Idle /\ call.name = "pc_list" /\ result.status = "ok") =>
       LET ids == RecordIds(result)
       IN  InRequestedOrder([i \in DOMAIN ids |-> OrderOfId(ids[i])], call.arg)

\* C16 without the order of the records: a PC list call that asks for no
\* sort by received amount does not return at all.
C16_OtherSortsRaise ==
    (call # Idle /\ call.name = "pc_list" /\ call.arg.receive_price = "") =>
       result = Raised("ProgrammingError")

(***************************************************************************)
(* SpecGoods: the line items attached to the orders of a page.  The item   *)
(* table is any part of a pool of items of the two first orders and of an  *)
(* order number no listed order has, disabled or not, with quantities of   *)
(* every shape.                                                            *)
(***************************************************************************)
GoodsItem(id, order_number, disabled, purchase_quantity) ==
    [id |-> id, order_id |-> Len(order_number), order_number |-> order_number,
     disabled |-> disabled, goods_sale_name |-> Null, barcode |-> Null,
     purchase_quantity |-> purchase_quantity]

GoodsOrder(id) == [BaseOrder(id) EXCEPT !.order_number = [i \in 1..id |-> "n"]]

ItemPool ==
    {GoodsItem(1, <<"n", "n">>, FALSE, Some(<<"2">>)),
     GoodsItem(2, <<"n">>, FALSE, Some(<<"1", ".", "5">>)),
     GoodsItem(3, <<"n">>, TRUE, Some(<<"4">>)),
     GoodsItem(4, <<"n">>, FALSE, Null),
     GoodsItem(5, <<"x">>, FALSE, Some(<<"8">>)),
     GoodsItem(6, <<"n", "n">>, TRUE, Some(<<>>)),
     GoodsItem(7, <<"n">>, FALSE, Some(<<"0", ".", "2", "5">>))}

GoodsPcQueries == {q \in PcPageQueries : q.total_origin_price = ""}

InitGoods ==
    /\ orders = {GoodsOrder(i) : i \in OrderIds}
    /\ items \in SUBSET ItemPool
    /\ payments = {}
    /\ refundMap = <<>>
    /\ NoRefunds
    /\ call = Idle
    /\ result = NoResult

NextGoods ==
    \/ \E q \in ListPageQueries : do_get_local_order_list_info(q)
    \/ \E q \in GoodsPcQueries : do_get_local_order_pc_list_info(q)
    \/ Return

SpecGoods == InitGoods /\ [][NextGoods]_vars

\* The non-disabled items with the given order number.
GoodsOf(order_number) ==
    {it \in items : ~it.disabled /\ it.order_number = order_number}

\* C17: every record of a returned page has as goods_info the non-disabled
\* items whose order_number is the record's, each once, in ascending id
\* order (the empty list when there is none), and the page cost one item
\* query, or none when it is empty.
C17_GoodsOfThePage ==
    ReturnedPage =>
       /\ \A k \in DOMAIN result.records_list :
             LET goods == result.records_list[k].goods_info
                 want == GoodsOf(result.records_list[k].order_number)
             IN  /\ Len(goods) = Cardinality(want)
                 /\ {goods[i] : i \in DOMAIN goods} = want
                 /\ \A i, j \in DOMAIN goods : i < j => goods[i].id < goods[j].id
       /\ call.item_queries = IF result.records_list = <<>> THEN 0 ELSE 1

\* A returned page holds an order with two items, while the table also
\* holds a disabled item of that order and an item of another order.
C17_Witness ==
    /\ ReturnedPage
    /\ \E k \in DOMAIN result.records_list :
          /\ Len(result.records_list[k].goods_info) = 2
          /\ \E it \in items :
                it.disabled /\ it.order_number = result.records_list[k].order_number
          /\ \E it \in items :
                ~it.disabled /\ it.order_number # result.records_list[k].order_number

(***************************************************************************)
(* SpecQuantity: get_total_purchase_quantity on None and on every list of  *)
(* up to MaxQuantityItems items whose quantity is a decimal numeral, zero, *)
(* the empty string, None, or missing.                                     *)
(***************************************************************************)
MaxQuantityItems == 3

QuantityItems ==
    {[goods_id |-> 1, purchase_quantity |-> Some(<<"2">>)],
     [goods_id |-> 1, purchase_quantity |-> Some(<<"1", ".", "5">>)],
     [goods_id |-> 1, purchase_quantity |-> Some(<<"0", ".", "2", "5">>)],
     [goods_id |-> 1, purchase_quantity |-> Some(<<"0">>)],
     [goods_id |-> 1, purchase_quantity |-> Some(<<>>)],
     [goods_id |-> 1, purchase_quantity |-> Null],
     [goods_id |-> 1]}

QuantityInputs ==
    {NoneSeq} \cup
    {Given(l) : l \in UNION {[1..n -> QuantityItems] : n \in 0..MaxQuantityItems}}

GetTotalPurchaseQuantity(order_items) ==
    /\ call = Idle
    /\ UNCHANGED <<orders, payments, items, refundMap, returns,
                 refundPayments, returnItems>>
    /\ call' = [name |-> "total_purchase_quantity", arg |-> order_items]
    /\ result' = [status |-> "ok",
                  total  |-> get_total_purchase_quantity(order_items)]

InitQuantity ==
    /\ orders = {}
    /\ payments = {}
    /\ items = {}
    /\ refundMap = <<>>
    /\ NoRefunds
    /\ call = Idle
    /\ result = NoResult

NextQuantity ==
    \/ \E order_items \in QuantityInputs : GetTotalPurchaseQuantity(order_items)
    \/ Return

SpecQuantity == InitQuantity /\ [][NextQuantity]_vars

\* What an item counts for, in thousandths: its quantity, or zero when the
\* quantity is missing, None or empty.
CountsFor(item) ==
    IF "purchase_quantity" \notin DOMAIN item THEN 0
    ELSE IF item.purchase_quantity = Null THEN 0
    ELSE IF item.purchase_quantity = Some(<<"2">>) THEN 2000
    ELSE IF item.purchase_quantity = Some(<<"1", ".", "5">>) THEN 1500
    ELSE IF item.purchase_quantity = Some(<<"0", ".", "2", "5">>) THEN 250
    ELSE 0

RECURSIVE SumOfQuantities(_)
SumOfQuantities(l) ==
    IF l = <<>> THEN 0 ELSE CountsFor(Head(l)) + SumOfQuantities(Tail(l))

\* C18: get_total_purchase_quantity returns the exact decimal sum of the
\* items' quantities, an item whose quantity is missing, None or empty
\* counting as zero, and 0 when the list is empty or None.
C18_TotalIsExactSum ==
    (call # Idle /\ call.name = "total_purchase_quantity") =>
       /\ result.status = "ok"
       /\ result.total =
             IF call.arg.none THEN 0 ELSE SumOfQuantities(call.arg.v)

\* The total 1.75 was returned for a list that adds 1.5 and 0.25 and holds
\* an item without quantity.
C18_Witness ==
    /\ call # Idle /\ call.name = "total_purchase_quantity"
    /\ result.total = 1750
    /\ \E i \in DOMAIN call.arg.v :
          "purchase_quantity" \notin DOMAIN call.arg.v[i]

(***************************************************************************)
(* SpecDetail: the detail operations on orders that exist or not.  Order 1 *)
(* is of either company and disabled or not; a detail is asked for every   *)
(* order id, one more than there are orders, and both companies.           *)
(***************************************************************************)
DetailOrderVariants ==
    {[BaseOrder(1) EXCEPT !.company_id = c, !.disabled = d] :
        c \in {1, 2}, d \in BOOLEAN}

DetailSideTables ==
    LET b == BaseOrder(1)
    IN  {<<{}, {}>>,
         <<{Item(1, b, FALSE, Null, Null)}, {}>>,
         <<{Item(1, b, FALSE, Null, Null), Item(2, b, TRUE, Null, Null)},
           {Payment(1, b, 12345, "true", 1)}>>,
         <<{}, {Payment(1, b, 12345, "true", 1), Payment(2, b, 7655, "false", 2)}>>}

DetailRecordIds == 1..(MaxOrders + 1)

InitDetail ==
    /\ \E n \in OrderIds, o1 \in DetailOrderVariants :
          orders = {o1} \cup {BaseOrder(i) : i \in 2..n}
    /\ \E t \in DetailSideTables : items = t[1] /\ payments = t[2]
    /\ refundMap = <<>>
    /\ NoRefunds
    /\ call = Idle
    /\ result = NoResult

NextDetail ==
    \/ \E id \in DetailRecordIds, c \in {1, 2} :
          do_get_local_order_detail_info(id, c)
    \/ \E id \in DetailRecordIds, c \in {1, 2} :
          do_get_local_order_detail_pc_info(id, c)
    \/ \E id \in DetailRecordIds, c \in {1, 2} :
          do_get_order_base_price_info(id, c)
    \/ \E id \in DetailRecordIds, c \in {1, 2} :
          do_get_goods_price_statistic(id, c)
    \/ Return

SpecDetail == InitDetail /\ [][NextDetail]_vars

DetailCalls == {"detail", "detail_pc", "base_price", "goods_price_statistic"}

\* The current call is a detail operation for an order id that no
\* non-disabled order of the company has.
DetailOfNoOrder ==
    /\ call # Idle
    /\ call.name \in DetailCalls
    /\ ~\E o \in orders : /\ o.id = call.arg.record_id
                          /\ o.company_id = call.arg.company_id
                          /\ ~o.disabled

\* The operation returned None or an empty collection.
NoneOrEmpty == result.status = "ok" /\ (~result.found \/ DOMAIN result.record = {})

\* C19: every detail operation called for an order id that no non-disabled
\* order of the company has returns None or an empty collection, and does
\* not raise.
C19_NotFoundIsNoneOrEmpty == DetailOfNoOrder => NoneOrEmpty

\* C19 for do_get_local_order_detail_info, do_get_local_order_detail_pc_info
\* and do_get_order_base_price_info: without a matching order they return
\* None.
C19_ThreeDetailsReturnNone ==
    (DetailOfNoOrder /\ call.name # "goods_price_statistic") =>
       (result.status = "ok" /\ ~result.found)

\* do_get_goods_price_statistic without a matching order: it returns a
\* dictionary that has every key, each with the value None.
C19_StatisticReturnsNoneValues ==
    (DetailOfNoOrder /\ call.name = "goods_price_statistic") =>
       /\ result.status = "ok" /\ result.found
       /\ DOMAIN result.record # {}
       /\ \A k \in DOMAIN result.record : IsNull(result.record[k])

(***************************************************************************)
(* SpecState: state codes inside and outside OrderStateEnum.  Order 1 has  *)
(* any of the codes; the state name is asked for directly, through the     *)
(* CASE of sale_order_state_trans with and without excluded states, and    *)
(* through the detail and list operations.                                 *)
(***************************************************************************)
StateInputs == OrderStateCodes \cup {18, 99}

\* exclude_state of the callers: the default [], and the list
\* do_get_order_state_info passes.
ExcludeStates == {{}, {0, 1, 2, 3, 7, 12, 13, 14, 15, 16, 17}}

StateQueries ==
    {BaseQuery, [BaseQuery EXCEPT !.states = Given({5, 18, 99})]}

GetStateName(state_value) ==
    /\ call = Idle
    /\ UNCHANGED <<orders, payments, items, refundMap, returns,
                 refundPayments, returnItems>>
    /\ call' = [name |-> "state_name", arg |-> state_value]
    /\ result' = [status |-> "ok", label |-> get_state_name(state_value)]

\* The CASE expression of sale_order_state_trans(exclude_state), selected
\* for every order row.
SaleOrderStateTrans(exclude_state) ==
    /\ call = Idle
    /\ UNCHANGED <<orders, payments, items, refundMap, returns,
                 refundPayments, returnItems>>
    /\ call' = [name |-> "state_trans", arg |-> exclude_state]
    /\ result' = [status |-> "ok",
                  labels |-> [id \in {o.id : o \in orders} |->
                                sale_order_state_trans(exclude_state,
                                   (CHOOSE o \in orders : o.id = id).state)]]

InitState ==
    /\ \E n \in OrderIds, st \in StateInputs :
          orders = {[BaseOrder(1) EXCEPT !.state = st]}
                   \cup {BaseOrder(i) : i \in 2..n}
    /\ items = {}
    /\ payments = {}
    /\ refundMap = <<>>
    /\ NoRefunds
    /\ call = Idle
    /\ result = NoResult

NextState ==
    \/ \E state_value \in StateInputs : GetStateName(state_value)
    \/ \E exclude_state \in ExcludeStates : SaleOrderStateTrans(exclude_state)
    \/ \E id \in OrderIds : do_get_local_order_detail_info(id, BaseQuery.company_id)
    \/ \E id \in OrderIds : do_get_local_order_detail_pc_info(id, BaseQuery.company_id)
    \/ \E q \in StateQueries : do_get_local_order_list_info(q)
    \/ \E q \in StateQueries : do_get_local_order_pc_list_info(q)
    \/ Return

SpecState == InitState /\ [][NextState]_vars

Unknown(state) == state \notin OrderStateCodes

\* C20: a state code that is no member of OrderStateEnum gets the unknown
\* label from get_state_name and from the CASE of sale_order_state_trans,
\* which gives it to every excluded state too; no call raises for it, and
\* the detail and list operations return the order, labelled unknown.
C20_UnknownStateLabel ==
    /\ (call.name = "state_name" /\ Unknown(call.arg)) =>
          result = [status |-> "ok", label |-> "unknown_state"]
    /\ call.name = "state_trans" =>
          /\ result.status = "ok"
          /\ \A o \in orders :
                /\ o.id \in DOMAIN result.labels
                /\ (Unknown(o.state) \/ o.state \in call.arg) =>
                      result.labels[o.id] = "unknown_state"
    /\ (call.name \in {"detail", "detail_pc"}
        /\ \E o \in orders : o.id = call.arg.record_id /\ Unknown(o.state)) =>
          /\ result.status = "ok" /\ result.found
          /\ result.record.state_name = "unknown_state"
    /\ (call.name = "list" /\ IsSupplied(call.arg, "states")) =>
          /\ result.status = "ok"
          /\ \A o \in orders :
                Unknown(o.state) =>
                   \E i \in DOMAIN result.records_list :
                      /\ result.records_list[i].id = o.id
                      /\ result.records_list[i].state_name = "unknown_state"
    /\ (call.name = "pc_list" /\ IsSupplied(call.arg, "states")
        /\ result.status = "ok") =>
          \A o \in orders :
             Unknown(o.state) =>
                \E i \in DOMAIN result.records_list :
                   /\ result.records_list[i].id = o.id
                   /\ result.records_list[i].state_name = "unknown_state"

\* The list returned an order whose state code, 99, is no member of the
\* enumeration, labelled unknown.
C20_Witness ==
    /\ call.name = "list"
    /\ result.status = "ok"
    /\ \E i \in DOMAIN result.records_list :
          /\ OrderOfId(result.records_list[i].id).state = 99
          /\ result.records_list[i].state_name = "unknown_state"

(***************************************************************************)
(* SpecItems: the items of an order in the PC detail.  The item table is   *)
(* any part of a pool of items of order 1 and order 2 whose                *)
(* goods_discounts text is JSON, is not, is empty or is NULL, and whose    *)
(* stored prices have two or three decimal digits.                         *)
(***************************************************************************)
PcItem(id, o, goods_discounts, selling_price) ==
    [id |-> id, order_id |-> o.record_id, order_number |-> o.order_number,
     disabled |-> FALSE, goods_sale_name |-> Null, barcode |-> Null,
     purchase_quantity |-> Some(<<"1">>),
     goods_discounts |-> goods_discounts,
     selling_price |-> selling_price,
     actual_receive_price |-> selling_price]

PcItemPool ==
    {PcItem(1, BaseOrder(1), Some(<<"[", "]">>), Some(12340)),
     PcItem(2, BaseOrder(1), Some(<<"x">>), Some(7650)),
     PcItem(3, BaseOrder(1), Null, Some(12345)),
     PcItem(4, BaseOrder(1), Some(<<>>), Null),
     PcItem(5, BaseOrder(2), Some(<<"{">>), Some(7655)),
     PcItem(6, BaseOrder(2), Some(<<"1", "2">>), Some(7650))}

InitItems ==
    /\ orders = {BaseOrder(i) : i \in OrderIds}
    /\ items \in SUBSET PcItemPool
    /\ payments = {}
    /\ refundMap = <<>>
    /\ NoRefunds
    /\ call = Idle
    /\ result = NoResult

NextItems ==
    \/ \E id \in DetailRecordIds :
          do_get_order_detail_pc_items(id, BaseQuery.company_id)
    \/ Return

SpecItems == InitItems /\ [][NextItems]_vars

\* The items of the order the current call asks for.
ItemsAsked ==
    {it \in items : \E o \in orders : /\ o.id = call.arg.record_id
                                      /\ it.order_id = o.record_id}

\* The text is neither an array, an object nor a number.
Malformed(goods_discounts) ==
    /\ ~IsNull(goods_discounts)
    /\ Val(goods_discounts) \notin {<<>>, <<"[", "]">>, <<"{", "}">>, <<"1", "2">>}

PcItemsCall == call # Idle /\ call.name = "detail_pc_items"

\* C21: do_get_order_detail_pc_items is not aborted by an item whose
\* goods_discounts text is no JSON: it returns a record for every item of
\* the order, the unparsable goods_discounts absent.
C21_MalformedDiscountsDegrade ==
    PcItemsCall =>
       /\ result.status = "ok"
       /\ {result.records[i].id : i \in DOMAIN result.records}
             = {it.id : it \in ItemsAsked}
       /\ \A i \in DOMAIN result.records :
             \A it \in ItemsAsked :
                (it.id = result.records[i].id /\ Malformed(it.goods_discounts))
                   => IsNull(result.records[i].goods_discounts)

\* C21 without the malformed items: when every goods_discounts text of the
\* order parses, every item is returned, and the call raises exactly when
\* one text does not parse.
C21_RaisesIffMalformed ==
    PcItemsCall =>
       /\ (result = Raised("JSONDecodeError"))
             <=> \E it \in ItemsAsked : Malformed(it.goods_discounts)
       /\ result.status = "ok" =>
             {result.records[i].id : i \in DOMAIN result.records}
                = {it.id : it \in ItemsAsked}

(***************************************************************************)
(* SpecChannel: the payment channel label of the two lists.  The orders'   *)
(* record_id is their id or their id plus one; the payment table is any    *)
(* part of a pool with two cash payments and a failed card payment of      *)
(* order 1 and a card payment of order 2.                                  *)
(***************************************************************************)
ChannelOrder(id, shift) == [BaseOrder(id) EXCEPT !.record_id = id + shift]

ChannelPaymentPool(shift) ==
    {Payment(1, ChannelOrder(1, shift), 12345, "true", 1),
     Payment(2, ChannelOrder(1, shift), 7655, "true", 1),
     Payment(3, ChannelOrder(1, shift), 7655, "false", 2),
     Payment(4, ChannelOrder(2, shift), 12345, "true", 2)}

InitChannel ==
    /\ \E shift \in {0, 1} :
          /\ orders = {ChannelOrder(i, shift) : i \in OrderIds}
          /\ payments \in SUBSET ChannelPaymentPool(shift)
    /\ items = {}
    /\ refundMap = <<>>
    /\ NoRefunds
    /\ call = Idle
    /\ result = NoResult

NextChannel ==
    \/ \E q \in ListPageQueries : do_get_local_order_list_info(q)
    \/ \E q \in ListPageQueries : do_get_local_order_pc_list_info(q)
    \/ \E id \in OrderIds :
          do_get_local_order_detail_pc_info(id, BaseQuery.company_id)
    \/ Return

SpecChannel == InitChannel /\ [][NextChannel]_vars

\* The names of the payment methods of the order's payment rows.
MethodNames(o) ==
    {pm.payment_method_name : pm \in {x \in payments : x.order_id = o.record_id}}

\* C22: in the list, the pay_channel of a returned order joins the distinct
\* payment_method_name values of the order's payment rows, each exactly
\* once, and is null for an order without payment rows.
C22_PayChannelDistinctNames ==
    (call # Idle /\ call.name = "list" /\ result.status = "ok") =>
       \A i \in DOMAIN result.records_list :
          LET names == MethodNames(OrderOfId(result.records_list[i].id))
              pay_channel == result.records_list[i].pay_channel
          IN  IF names = {} THEN IsNull(pay_channel)
              ELSE /\ ~IsNull(pay_channel)
                   /\ DOMAIN Val(pay_channel) = names
                   /\ \A name \in names : Val(pay_channel)[name] = 1

\* The list returned an order with two cash payments and a card payment,
\* with a pay_channel of two names.
C22_Witness ==
    /\ call # Idle /\ call.name = "list" /\ result.status = "ok"
    /\ \E i \in DOMAIN result.records_list :
          /\ Cardinality({pm \in payments :
                pm.order_id = OrderOfId(result.records_list[i].id).record_id}) = 3
          /\ ~IsNull(result.records_list[i].pay_channel)
          /\ DOMAIN Val(result.records_list[i].pay_channel) = {"cash", "card"}

\* An amount in thousandths that has no more than two decimal digits.
TwoDecimals(amount) == amount % 10 = 0

\* C23: the monetary amounts the detail and price operations return are
\* rounded to 2 decimal places: the payment_amount of
\* do_get_order_base_price_info and the per-payment amounts in pay_channel
\* of the two detail operations.
C23_AmountsHaveTwoDecimals ==
    /\ (call.name = "base_price" /\ result.status = "ok" /\ result.found
        /\ ~IsNull(result.record.payment_amount)) =>
          TwoDecimals(Val(result.record.payment_amount))
    /\ (call.name \in {"detail", "detail_pc"} /\ result.status = "ok"
        /\ result.found /\ ~IsNull(result.record.pay_channel)) =>
          \A i \in DOMAIN Val(result.record.pay_channel) :
             TwoDecimals(Val(result.record.pay_channel)[i].amount)

\* C23 for do_get_order_detail_pc_items (under SpecItems): the
\* selling_price and actual_receive_price of every returned item have no
\* more than two decimal digits.
C23_ItemPricesHaveTwoDecimals ==
    (PcItemsCall /\ result.status = "ok") =>
       \A i \in DOMAIN result.records :
          /\ TwoDecimals(result.records[i].selling_price.thousandths)
          /\ TwoDecimals(result.records[i].actual_receive_price.thousandths)

\* The exact sum, in thousandths, of the successful payments of o.
RECURSIVE ExactSum(_)
ExactSum(rows) ==
    IF rows = {} THEN 0
    ELSE LET pm == CHOOSE x \in rows : TRUE
         IN  pm.payment_amount + ExactSum(rows \ {pm})

SuccessfulOf(o) ==
    {pm \in payments : pm.order_id = o.record_id /\ pm.is_pay_success = "true"}

\* The received amount shown for o is the exact sum of its successful
\* payments rounded once to hundredths (half up).
RoundedOnce(text, o) ==
    SuccessfulOf(o) # {} =>
       /\ text.kind = "amount"
       /\ text.cents = (ExactSum(SuccessfulOf(o)) + 5) \div 10

\* C24: the received amount of an order is the exact sum of its successful
\* payments, rounded to 2 decimals once: in the lists and in the PC detail,
\* two successful payments of 12.345 and 7.655 show 20.00.
C24_SumThenRoundOnce ==
    /\ (call # Idle /\ call.name \in {"list", "pc_list"}
        /\ result.status = "ok") =>
          \A i \in DOMAIN result.records_list :
             RoundedOnce(result.records_list[i].receive_price,
                         OrderOfId(result.records_list[i].id))
    /\ (call # Idle /\ call.name = "detail_pc" /\ result.status = "ok"
        /\ result.found) =>
          RoundedOnce(result.record.receive_price,
                      OrderOfId(call.arg.record_id))

\* The PC detail showed 20.00 for an order whose successful payments are
\* 12.345 and 7.655.
C24_Witness ==
    /\ call # Idle /\ call.name = "detail_pc"
    /\ result.status = "ok" /\ result.found
    /\ {pm.payment_amount : pm \in SuccessfulOf(OrderOfId(call.arg.record_id))}
          = {12345, 7655}
    /\ result.record.receive_price.kind = "amount"
    /\ result.record.receive_price.cents = 2000

(***************************************************************************)
(* SpecConcurrent: MaxTasks invocations of the list and the detail         *)
(* operation interleaved at their await points, over tables that do not    *)
(* change.  call holds the coroutines: for each task its position and its  *)
(* local variables (the request, whose predicate list is rebuilt from it,  *)
(* the exclude_state list its state CASE was built from, the rows fetched  *)
(* so far), and the one object the invocations share, the default          *)
(* exclude_state list of sale_order_state_trans; result holds the value    *)
(* each task returned.                                                     *)
(***************************************************************************)
MaxTasks == 2

Tasks == 1..MaxTasks

IdleTask == [pc |-> "idle"]

ConcurrentQueries ==
    {BaseQuery,
     [BaseQuery EXCEPT !.page_size = 1],
     [BaseQuery EXCEPT !.states = Given({1})]}

\* Mutant: sale_order_state_trans appends to the list it is given.
ExcludeStateAfterCall_Appends(exclude_state) == exclude_state \cup {4}

\* The exclude_state list after sale_order_state_trans(exclude_state) has
\* run: the list is only read (state.value not in exclude_state).
ExcludeStateAfterCall(exclude_state) == exclude_state

\* self.sale_order_state_trans() at the start of an operation: the CASE is
\* built from the shared default list, then the conditions; the task stops
\* at its first await.
TaskStart(p, op, arg) ==
    /\ call.task[p].pc = "idle"
    /\ call' = [call EXCEPT
                  !.task[p] = [pc            |-> "await_main_query",
                               op            |-> op,
                               arg           |-> arg,
                               exclude_state |-> call.default_exclude_state,
                               rows          |-> <<>>,
                               all_count     |-> 0],
                  !.default_exclude_state = ExcludeStateAfterCall(@)]
    /\ result' = [result EXCEPT ![p] = NoResult]
    /\ UNCHANGED <<orders, payments, items, refundMap, returns,
                 refundPayments, returnItems>>

\* await self.db_session.execute(main_query) of the list.
ListMainQuery(p) ==
    /\ call.task[p].pc = "await_main_query"
    /\ call.task[p].op = "list"
    /\ \E ordered \in Orderings(ListBaseQuery(call.task[p].arg, orders,
                                              payments, items),
                                CreatedAtKey, TRUE) :
          call' = [call EXCEPT
                     !.task[p].pc = "await_count_query",
                     !.task[p].rows =
                        LimitOffset(ordered, call.task[p].arg.page_size,
                                    offset_count(call.task[p].arg))]
    /\ UNCHANGED <<orders, payments, items, refundMap, returns,
                 refundPayments, returnItems, result>>

\* await self.db_session.execute(count_query) of the list.
ListCountQuery(p) ==
    /\ call.task[p].pc = "await_count_query"
    /\ call' = [call EXCEPT
                  !.task[p].pc = "await_items",
                  !.task[p].all_count =
                     Cardinality(ListBaseQuery(call.task[p].arg, orders,
                                               payments, items))]
    /\ UNCHANGED <<orders, payments, items, refundMap, returns,
                 refundPayments, returnItems, result>>

\* await self.get_order_items_by_order_number(...) of the list, the loop
\* over the records and the return.
ListItemsQuery(p) ==
    /\ call.task[p].pc = "await_items"
    /\ LET t == call.task[p]
           order_numbers == {t.rows[i].order_number : i \in DOMAIN t.rows}
       IN  result' =
             [result EXCEPT ![p] =
                [status       |-> "ok",
                 records_list |->
                    [i \in DOMAIN t.rows |->
                       [ListRecord(t.rows[i], payments, items, order_numbers)
                          EXCEPT !.state_name =
                             sale_order_state_trans(t.exclude_state,
                                                    t.rows[i].state)]],
                 all_count    |-> t.all_count]]
    /\ call' = [call EXCEPT !.task[p].pc = "done"]
    /\ UNCHANGED <<orders, payments, items, refundMap, returns,
                 refundPayments, returnItems>>

\* await self.db_session.execute(main_query) of the detail, fetchone and
\* the return; id, state_name and receive_price stand for the record.
DetailMainQuery(p) ==
    /\ call.task[p].pc = "await_main_query"
    /\ call.task[p].op = "detail"
    /\ LET t == call.task[p]
           rows == DetailRows(t.arg.record_id, t.arg.company_id)
       IN  IF rows = {}
           THEN result' = [result EXCEPT ![p] = [status |-> "ok", found |-> FALSE]]
           ELSE \E o \in rows :
                  result' =
                    [result EXCEPT ![p] =
                       [status |-> "ok", found |-> TRUE,
                        record |->
                          [id            |-> o.id,
                           state_name    |->
                              sale_order_state_trans(t.exclude_state, o.state),
                           receive_price |-> DetailReceivePrice(o, payments)]]]
    /\ call' = [call EXCEPT !.task[p].pc = "done"]
    /\ UNCHANGED <<orders, payments, items, refundMap, returns,
                 refundPayments, returnItems>>

\* The caller has taken the value; the task may serve the next request.
TaskReturn(p) ==
    /\ call.task[p].pc = "done"
    /\ call' = [call EXCEPT !.task[p] = IdleTask]
    /\ result' = [result EXCEPT ![p] = NoResult]
    /\ UNCHANGED <<orders, payments, items, refundMap, returns,
                 refundPayments, returnItems>>

InitConcurrent ==
    /\ \E st \in {1, 4} :
          orders = {[BaseOrder(1) EXCEPT !.state = st]}
                   \cup {BaseOrder(i) : i \in 2..MaxOrders}
    /\ payments \in {{}, {Payment(1, BaseOrder(1), 12345, "true", 1)}}
    /\ items = {}
    /\ refundMap = <<>>
    /\ NoRefunds
    /\ call = [name |-> "concurrent", default_exclude_state |-> {},
               task |-> [p \in Tasks |-> IdleTask]]
    /\ result = [p \in Tasks |-> NoResult]

NextConcurrent ==
    \/ \E p \in Tasks, q \in ConcurrentQueries : TaskStart(p, "list", q)
    \/ \E p \in Tasks, id \in OrderIds :
          TaskStart(p, "detail", [record_id |-> id,
                                  company_id |-> BaseQuery.company_id])
    \/ \E p \in Tasks : ListMainQuery(p)
    \/ \E p \in Tasks : ListCountQuery(p)
    \/ \E p \in Tasks : ListItemsQuery(p)
    \/ \E p \in Tasks : DetailMainQuery(p)
    \/ \E p \in Tasks : TaskReturn(p)

SpecConcurrent == InitConcurrent /\ [][NextConcurrent]_vars

\* The values the list returns for q over the tables ords, pays and its.
ListResults(q, ords, pays, its) ==
    LET base_query == ListBaseQuery(q, ords, pays, its)
    IN  {[status       |-> "ok",
          records_list |->
             LET page == LimitOffset(ordered, q.page_size, offset_count(q))
             IN  [i \in DOMAIN page |->
                    ListRecord(page[i], pays, its,
                               {page[j].order_number : j \in DOMAIN page})],
          all_count    |-> Cardinality(base_query)] :
            ordered \in Orderings(base_query, CreatedAtKey, TRUE)}

\* The values the list returns for q when it runs alone.
ListAlone(q) == ListResults(q, orders, payments, items)

\* The value the detail returns for arg when it runs alone.
DetailAlone(arg) ==
    LET rows == DetailRows(arg.record_id, arg.company_id)
    IN  IF rows = {} THEN {[status |-> "ok", found |-> FALSE]}
        ELSE {[status |-> "ok", found |-> TRUE,
               record |-> [id            |-> o.id,
                           state_name    |-> state_case(o.state),
                           receive_price |-> DetailReceivePrice(o, payments)]] :
                 o \in rows}

\* C25: invocations interleaved at their await points share no mutable
\* state: each returns a value it returns when it runs alone over the same
\* tables, the default exclude_state list stays empty, and the request and
\* CASE of a task are those it started with.
C25_SameAsAlone ==
    /\ call.default_exclude_state = {}
    /\ \A p \in Tasks :
          /\ call.task[p].pc # "idle" => call.task[p].exclude_state = {}
          /\ call.task[p].pc = "done" =>
                result[p] \in (IF call.task[p].op = "list"
                               THEN ListAlone(call.task[p].arg)
                               ELSE DetailAlone(call.task[p].arg))

\* A list has returned an order while another list, with another request,
\* is between its main query and its item query.
C25_Witness ==
    \E p, r \in Tasks :
       /\ p # r
       /\ call.task[p].pc = "done" /\ call.task[p].op = "list"
       /\ result[p].records_list # <<>>
       /\ call.task[r].pc \in {"await_count_query", "await_items"}
       /\ call.task[r].arg # call.task[p].arg

(***************************************************************************)
(* do_get_order_refund_base                                                *)
(***************************************************************************)
\* A row of SaleOrderReturn for the order o.
SaleOrderReturn(id, o, create_at) ==
    [id            |-> id,
     record_id     |-> id,
     order_id      |-> o.record_id,
     create_at     |-> create_at,
     refund_number |-> id]

\* A row of SaleOrderRefundPayment for the refund rt; amount is nullable.
RefundPayment(id, rt, company_id, amount, flag, sort) ==
    [id                    |-> id,
     order_refund_id       |-> rt.record_id,
     company_id            |-> company_id,
     refund_payment_amount |-> amount,
     is_refund_success     |-> flag,
     sort                  |-> sort]

\* A row of SaleOrderReturnItem for the refund rt and the order item with
\* record_id order_item_id.
ReturnItem(id, rt, order_item_id) ==
    [id |-> id, order_refund_id |-> rt.record_id,
     order_item_id |-> order_item_id]

\* The right side of an outer join: the matching rows, or one all-NULL row.
OuterRows(rows) == IF rows = {} THEN {Null} ELSE {Some(r) : r \in rows}

\* SaleOrder JOIN SaleOrderReturn OUTER JOIN SaleOrderRefundPayment OUTER
\* JOIN SaleOrderReturnItem, both on SaleOrderReturn.record_id: one row for
\* every pair of a refund payment and a return item of the refund.
RefundJoin(o) ==
    {[rt |-> rt, rp |-> rp, ri |-> ri] :
        rt \in {r \in returns : r.order_id = o.record_id},
        rp \in OuterRows(refundPayments),
        ri \in OuterRows(returnItems)}

RefundJoinRows(o) ==
    {j \in RefundJoin(o) :
        /\ \/ /\ IsNull(j.rp)
              /\ ~\E p \in refundPayments : p.order_refund_id = j.rt.record_id
           \/ /\ ~IsNull(j.rp)
              /\ Val(j.rp).order_refund_id = j.rt.record_id
        /\ \/ /\ IsNull(j.ri)
              /\ ~\E i \in returnItems : i.order_refund_id = j.rt.record_id
           \/ /\ ~IsNull(j.ri)
              /\ Val(j.ri).order_refund_id = j.rt.record_id}

\* case((is_refund_success.is_(True), cast(refund_payment_amount, Numeric)),
\* else_=0) on one joined row.
RefundCase(j) ==
    IF ~IsNull(j.rp) /\ Val(j.rp).is_refund_success = "true"
    THEN Val(j.rp).refund_payment_amount
    ELSE Some(0)

RECURSIVE SumRefundCase(_)
\* func.sum over joined rows: NULL values are skipped, and the sum of no
\* value is NULL.
SumRefundCase(rows) ==
    IF rows = {} THEN Null
    ELSE LET j    == CHOOSE r \in rows : TRUE
             rest == SumRefundCase(rows \ {j})
             v    == RefundCase(j)
         IN  IF IsNull(v) THEN rest
             ELSE IF IsNull(rest) THEN v
             ELSE Some(Val(v) + Val(rest))

\* One element of array_agg(CASE ...): name and amount of a successful
\* payment, name and 0.00 of a payment that did not succeed, the empty array
\* of a payment without amount.
RefundChannelEntry(p) ==
    IF IsNull(p.refund_payment_amount) THEN [kind |-> "empty", amount |-> 0]
    ELSE IF p.is_refund_success = "true"
    THEN [kind |-> "paid", amount |-> Val(p.refund_payment_amount)]
    ELSE [kind |-> "zero", amount |-> 0]

RefundSortKey(p) == Some(p.sort)

\* refund_payment_subquery: array_agg(... ORDER BY sort ASC) of the refund
\* payments of the company, per order_refund_id; NULL through the outer join
\* for a refund without such a row.  Rows with equal sort come in any order:
\* the values the subquery may hold for rt.
refund_pay_channel(rt, company_id) ==
    LET rows == {p \in refundPayments :
                    /\ p.company_id = company_id
                    /\ p.order_refund_id = rt.record_id}
    IN  IF rows = {} THEN {Null}
        ELSE {Some([i \in DOMAIN f |-> RefundChannelEntry(f[i])]) :
                 f \in Orderings(rows, RefundSortKey, FALSE)}

\* One value of the subquery for every refund of the order.
RefundChannels(o, company_id) ==
    LET rts == {r \in returns : r.order_id = o.record_id}
    IN  {c \in [rts -> UNION {refund_pay_channel(rt, company_id) : rt \in rts}] :
            \A rt \in rts : c[rt] \in refund_pay_channel(rt, company_id)}

\* The GROUP BY columns of main_query that differ between the rows of the
\* model: create_at, refund_number, the payment sum joined on
\* SaleOrderReturn.record_id = SaleOrder.id, and refund_pay_channel.
RefundGroupKey(o, rt, chan) ==
    [create_at          |-> rt.create_at,
     refund_number      |-> rt.refund_number,
     payment_amount     |-> IF rt.record_id = o.id
                            THEN SumSuccessPay(payments, o) ELSE Null,
     refund_pay_channel |-> chan[rt]]

\* The grouped rows of main_query.
RefundBaseRecords(o, chan) ==
    LET rows == RefundJoinRows(o)
        keys == {RefundGroupKey(o, j.rt, chan) : j \in rows}
    IN  {[create_at              |-> k.create_at,
          refund_number          |-> k.refund_number,
          refund_pay_channel     |-> k.refund_pay_channel,
          actually_refund_amount |->
             LET total == SumRefundCase(
                             {j \in rows :
                                 RefundGroupKey(o, j.rt, chan) = k})
             IN  IF IsNull(total) THEN Null ELSE Some(Round2(Val(total)))] :
            k \in keys}

RefundCreateAtKey(r) == Some(r.create_at)

\* do_get_order_refund_base(record_id, company_id): the grouped rows,
\* ORDER BY SaleOrderReturn.create_at DESC.
do_get_order_refund_base(record_id, company_id) ==
    /\ call = Idle
    /\ call' = [name |-> "refund_base",
                arg  |-> [record_id |-> record_id, company_id |-> company_id]]
    /\ IF DetailRows(record_id, company_id) = {}
       THEN result' = [status |-> "ok", records |-> <<>>]
       ELSE \E o \in DetailRows(record_id, company_id) :
            \E chan \in RefundChannels(o, company_id) :
            \E ordered \in Orderings(RefundBaseRecords(o, chan),
                                      RefundCreateAtKey, TRUE) :
               result' = [status |-> "ok", records |-> ordered]
    /\ UNCHANGED <<orders, payments, items, refundMap, returns,
                 refundPayments, returnItems>>

(***************************************************************************)
(* SpecRefund: do_get_order_refund_base on an order with up to two         *)
(* refunds, their refund payments and their return items.                  *)
(***************************************************************************)
RefundPool == {SaleOrderReturn(1, BaseOrder(1), 1), SaleOrderReturn(2, BaseOrder(1), 2)}

RefundPaymentPool ==
    {RefundPayment(1, SaleOrderReturn(1, BaseOrder(1), 1), 1, Some(12345), "true", 1),
     RefundPayment(2, SaleOrderReturn(1, BaseOrder(1), 1), 1, Some(7655), "true", 2),
     RefundPayment(3, SaleOrderReturn(2, BaseOrder(1), 2), 1, Some(5000), "false", 1),
     RefundPayment(4, SaleOrderReturn(2, BaseOrder(1), 2), 1, Null, "true", 1)}

ReturnItemPool ==
    {ReturnItem(1, SaleOrderReturn(1, BaseOrder(1), 1), 1),
     ReturnItem(2, SaleOrderReturn(1, BaseOrder(1), 1), 2),
     ReturnItem(3, SaleOrderReturn(2, BaseOrder(1), 2), 1)}

InitRefund ==
    /\ orders = {BaseOrder(i) : i \in OrderIds}
    /\ payments = {}
    /\ items = {}
    /\ refundMap = <<>>
    /\ returns \in SUBSET RefundPool
    /\ refundPayments \in SUBSET RefundPaymentPool
    /\ returnItems \in SUBSET ReturnItemPool
    /\ call = Idle
    /\ result = NoResult

NextRefund ==
    \/ \E id \in OrderIds : do_get_order_refund_base(id, BaseQuery.company_id)
    \/ Return

SpecRefund == InitRefund /\ [][NextRefund]_vars

\* The successful refund payments of the refund rt.
SuccessfulRefundPayments(rt) ==
    {p \in refundPayments : /\ p.order_refund_id = rt.record_id
                            /\ p.is_refund_success = "true"
                            /\ ~IsNull(p.refund_payment_amount)}

RECURSIVE SumRefundPayments(_)
SumRefundPayments(rows) ==
    IF rows = {} THEN 0
    ELSE LET p == CHOOSE r \in rows : TRUE
         IN  Val(p.refund_payment_amount) + SumRefundPayments(rows \ {p})

\* C26: the actually_refund_amount of every refund of the order is the sum
\* of the refund_payment_amount of its successful refund payments, each
\* counted once, whatever the number of its return items.
C26_EachRefundPaymentOnce ==
    (call.name = "refund_base" /\ result.status = "ok") =>
        \A i \in DOMAIN result.records :
           \E rt \in returns :
              /\ rt.refund_number = result.records[i].refund_number
              /\ \/ IsNull(result.records[i].actually_refund_amount)
                 \/ Val(result.records[i].actually_refund_amount) =
                       Round2(SumRefundPayments(SuccessfulRefundPayments(rt)))

\* The same for the refunds with at most one return item: these are right.
C26_OnceWithOneReturnItem ==
    (call.name = "refund_base" /\ result.status = "ok") =>
        \A i \in DOMAIN result.records :
           \E rt \in returns :
              /\ rt.refund_number = result.records[i].refund_number
              /\ Cardinality({ri \in returnItems :
                                 ri.order_refund_id = rt.record_id}) <= 1
                 => /\ ~IsNull(result.records[i].actually_refund_amount)
                       \/ /\ SuccessfulRefundPayments(rt) = {}
                          /\ \E p \in refundPayments :
                                p.order_refund_id = rt.record_id
                    /\ ~IsNull(result.records[i].actually_refund_amount) =>
                          Val(result.records[i].actually_refund_amount) =
                             Round2(SumRefundPayments(SuccessfulRefundPayments(rt)))

\* The set of names a pay_channel reports.
NamesIn(pay_channel) ==
    IF IsNull(pay_channel) THEN {} ELSE DOMAIN Val(pay_channel)

\* C27: for an order the PC list returns, its pay_channel reports the names
\* of the payments whose order_id is the order's record_id, the set the list
\* reports for the order, also when the order's id and record_id differ.
C27_PcListReportsTheNamesOfTheList ==
    (call # Idle /\ call.name = "pc_list" /\ result.status = "ok") =>
       \A i \in DOMAIN result.records_list :
          NamesIn(result.records_list[i].pay_channel) =
             MethodNames(OrderOfId(result.records_list[i].id))

\* The same where the id of every order is its record_id: there the two
\* operations agree.
C27_SameNamesWhenIdIsRecordId ==
    (/\ call # Idle /\ call.name = "pc_list" /\ result.status = "ok"
     /\ \A o \in orders : o.id = o.record_id) =>
       \A i \in DOMAIN result.records_list :
          NamesIn(result.records_list[i].pay_channel) =
             MethodNames(OrderOfId(result.records_list[i].id))

\* The pay_channel values that hold every successful payment of o once, in
\* ascending order of sort.
EveryPaymentOnce(o) ==
    {[i \in DOMAIN f |-> [method |-> f[i].payment_method_name,
                          amount |-> f[i].payment_amount]] :
        f \in Orderings(SuccessPaymentRows(payments, o), SortKey, FALSE)}

\* C29: for an order with two or more successful payments the PC detail
\* returns one record whose pay_channel holds every successful payment
\* exactly once, in ascending order of sort, whichever grouped row the fetch
\* returns.
C29_PayChannelHoldsEveryPayment ==
    (/\ call.name = "detail_pc" /\ result.status = "ok" /\ result.found
     /\ Cardinality(SuccessPaymentRows(payments,
                                       OrderOfId(call.arg.record_id))) >= 2) =>
        /\ ~IsNull(result.record.pay_channel)
        /\ Val(result.record.pay_channel) \in
              EveryPaymentOnce(OrderOfId(call.arg.record_id))

\* What the fetched row does hold: the successful payments up to one of
\* them, in ascending order of sort.
C29_PayChannelIsPrefix ==
    (/\ call.name = "detail_pc" /\ result.status = "ok" /\ result.found
     /\ Cardinality(SuccessPaymentRows(payments,
                                       OrderOfId(call.arg.record_id))) >= 2) =>
        /\ ~IsNull(result.record.pay_channel)
        /\ \E all \in EveryPaymentOnce(OrderOfId(call.arg.record_id)) :
           \E n \in 1..Len(all) :
              Val(result.record.pay_channel) = SubSeq(all, 1, n)

\* The orders whose amount of the filtered type is NULL: no successful
\* payment for receive_price, a NULL column for the two prices.
WithoutAmount(amount_type) ==
    {o \in orders :
        \/ amount_type = "receive_price" /\ SuccessPaymentRows(payments, o) = {}
        \/ amount_type = "total_price" /\ IsNull(o.total_origin_price)
        \/ amount_type = "discount_price" /\ IsNull(o.discount_price)}

\* C30: in the PC list an order without successful payment is matched by no
\* receive_price amount filter, whatever the operator, and an order whose
\* total_origin_price (discount_price) is NULL by no total_price
\* (discount_price) amount filter.
C30_NullAmountMatchesNoFilter ==
    (call.name = "pc_list" /\ result.status = "ok"
     /\ IsSupplied(call.arg, "amount_filter")) =>
        /\ \A o \in WithoutAmount(call.arg.amount_filter.v[1].amount_type) :
              o.id \notin call.base_ids
        /\ \A i \in DOMAIN result.records_list :
              \A o \in WithoutAmount(call.arg.amount_filter.v[1].amount_type) :
                 result.records_list[i].id # o.id

\* A receive_price filter with operator '<' left out an order without
\* successful payment that the same request without the filter matches.
C30_Witness ==
    /\ call.name = "pc_list" /\ result.status = "ok"
    /\ IsSupplied(call.arg, "amount_filter")
    /\ call.arg.amount_filter.v[1].amount_type = "receive_price"
    /\ call.arg.amount_filter.v[1].operator = "LT"
    /\ \E o \in WithoutAmount("receive_price") :
          /\ o.id \in MatchedIds("pc_list",
                                 [call.arg EXCEPT !.amount_filter = NoneSeq])
          /\ o.id \notin call.base_ids
          /\ \E pm \in payments : pm.order_id = o.record_id

(***************************************************************************)
(* do_get_order_pc_refund_base                                             *)
(***************************************************************************)
\* The rows of refund_payment_info before grouping: SaleOrderRefundPayment
\* JOIN SaleOrderReturn JOIN SaleOrder WHERE SaleOrderRefundPayment.company_id
\* = company_id AND SaleOrder.id = record_id (no filter on the company or on
\* disabled of the order), for one order_refund_id.
RefundPaymentInfoRows(order_refund_id, record_id, company_id) ==
    {j \in {[rp |-> rp, rt |-> rt, o |-> o] :
               rp \in refundPayments, rt \in returns, o \in orders} :
        /\ j.rp.order_refund_id = order_refund_id
        /\ j.rt.record_id = j.rp.order_refund_id
        /\ j.o.record_id = j.rt.order_id
        /\ j.rp.company_id = company_id
        /\ j.o.id = record_id}

\* One element of string_agg(CASE ...) of refund_payment_info: the amount of
\* a successful payment, 0.00 of one that did not succeed, '-' of a payment
\* without amount.
PcRefundChannelEntry(p) ==
    IF IsNull(p.refund_payment_amount) THEN [kind |-> "dash", amount |-> 0]
    ELSE IF p.is_refund_success = "true"
    THEN [kind |-> "paid", amount |-> Val(p.refund_payment_amount)]
    ELSE [kind |-> "zero", amount |-> 0]

RefundInfoSortKey(j) == Some(j.rp.sort)

\* The rows refund_payment_info may hold for order_refund_id: none, or one
\* with refund_pay_channel in ascending order of sort and with the sum of
\* the successful amounts.
refund_payment_info(order_refund_id, record_id, company_id) ==
    LET rows == RefundPaymentInfoRows(order_refund_id, record_id, company_id)
    IN  IF rows = {} THEN {Null}
        ELSE {Some([refund_pay_channel    |->
                       [i \in DOMAIN f |-> PcRefundChannelEntry(f[i].rp)],
                    refund_payment_amount |->
                       SumRefundCase({[rp |-> Some(j.rp), id |-> j] :
                                         j \in rows})]) :
                 f \in Orderings(rows, RefundInfoSortKey, FALSE)}

\* One grouped row of main_query: the order outer-joined with one of its
\* refunds (or with none) and with that refund's row of refund_payment_info.
PcRefundRecord(rt, info) ==
    [refund_record_id       |-> IF IsNull(rt) THEN Null ELSE Some(Val(rt).id),
     record_id              |-> IF IsNull(rt) THEN Null
                                ELSE Some(Val(rt).record_id),
     create_at              |-> IF IsNull(rt) THEN Null
                                ELSE Some(Val(rt).create_at),
     actually_refund_amount |->
        IF IsNull(info) \/ IsNull(Val(info).refund_payment_amount) THEN 0
        ELSE Round2(Val(Val(info).refund_payment_amount)),
     refund_pay_channel     |->
        IF IsNull(info) THEN Null ELSE Some(Val(info).refund_pay_channel)]

\* The refunds of main_query for the order o: one row per refund of the
\* order, one row of NULLs for an order without refund.
PcRefunds(o, company_id) ==
    LET rts == OuterRows({rt \in returns : rt.order_id = o.record_id})
        infos(rt) == IF IsNull(rt) THEN {Null}
                     ELSE refund_payment_info(Val(rt).record_id, o.id,
                                              company_id)
    IN  {recs \in SUBSET {PcRefundRecord(rt, info) :
                             rt \in rts,
                             info \in UNION {infos(x) : x \in rts}} :
            /\ Cardinality(recs) = Cardinality(rts)
            /\ \A rt \in rts : \E info \in infos(rt) :
                  PcRefundRecord(rt, info) \in recs}

PcRefundCreateAtKey(r) == r.create_at

\* refund_item_query: SaleOrderReturnItem JOIN SaleOrderItem ON
\* SaleOrderItem.record_id = order_item_id JOIN SaleOrder ON
\* SaleOrder.record_id = SaleOrderItem.order_id, for the order rows.
PcRefundItems(record_id, company_id) ==
    {[order_refund_id |-> j.ri.order_refund_id,
      id              |-> j.ri.id,
      goods_id        |-> j.it.id] :
        j \in {x \in {[ri |-> ri, it |-> it, o |-> o] :
                         ri \in returnItems,
                         it \in items,
                         o \in DetailRows(record_id, company_id)} :
                 /\ x.it.record_id = x.ri.order_item_id
                 /\ x.o.record_id = x.it.order_id}}

\* do_get_order_pc_refund_base(record_id, company_id): the refunds, ORDER BY
\* SaleOrderReturn.create_at DESC, and the refund items in any order.
do_get_order_pc_refund_base(record_id, company_id) ==
    /\ call = Idle
    /\ call' = [name |-> "pc_refund_base",
                arg  |-> [record_id |-> record_id, company_id |-> company_id]]
    /\ \E refund_items \in RowOrders(PcRefundItems(record_id, company_id)) :
          IF DetailRows(record_id, company_id) = {}
          THEN result' = [status |-> "ok", refunds |-> <<>>,
                          refund_items |-> refund_items]
          ELSE \E o \in DetailRows(record_id, company_id) :
               \E recs \in PcRefunds(o, company_id) :
               \E refunds \in Orderings(recs, PcRefundCreateAtKey, TRUE) :
                  result' = [status |-> "ok", refunds |-> refunds,
                             refund_items |-> refund_items]
    /\ UNCHANGED <<orders, payments, items, refundMap, returns,
                 refundPayments, returnItems>>

(***************************************************************************)
(* SpecTenant: the list, the PC list, the detail and the PC refunds asked  *)
(* for company 1, which has order 1, beside an order of company 2 and a    *)
(* disabled order of company 1 with rows of their own.  The order of       *)
(* company 2 has its own id and record_id; its order_number is that of     *)
(* order 1 or another one.                                                 *)
(***************************************************************************)
OtherNumber == <<"n", "c">>

ForeignOrder(order_number) ==
    [BaseOrder(MaxOrders + 1) EXCEPT !.company_id = 2,
                                     !.order_number = order_number]

DisabledOrder ==
    [BaseOrder(MaxOrders + 2) EXCEPT !.disabled = TRUE,
                                     !.order_number = OtherNumber]

\* The rows of a pool whose order is in the order table.
OfOrders(rows) == {r \in rows : \E o \in orders : r.order_id = o.record_id}

InitTenant ==
    /\ \E order_number \in {BaseOrder(1).order_number, OtherNumber} :
          /\ orders \in {{BaseOrder(1)} \cup others :
                            others \in SUBSET {ForeignOrder(order_number),
                                               DisabledOrder}}
          /\ items \in SUBSET OfOrders(
                {Item(1, BaseOrder(1), FALSE, Null, Null),
                 Item(2, ForeignOrder(order_number), FALSE, Null, Null),
                 Item(3, DisabledOrder, FALSE, Null, Null)})
          /\ payments \in
                {{Payment(1, BaseOrder(1), 12345, "true", 1)} \cup more :
                    more \in SUBSET OfOrders(
                       {Payment(2, ForeignOrder(order_number), 7655, "true", 2)})}
          /\ returns = OfOrders({SaleOrderReturn(1, BaseOrder(1), 1),
                                 SaleOrderReturn(2, ForeignOrder(order_number), 2)})
    /\ refundPayments \in SUBSET
          {rp \in {RefundPayment(1, SaleOrderReturn(1, BaseOrder(1), 1), 1,
                                 Some(12345), "true", 1),
                   RefundPayment(2, SaleOrderReturn(2, BaseOrder(1), 2), 2,
                                 Some(7655), "true", 1)} :
              \E rt \in returns : rt.record_id = rp.order_refund_id}
    /\ returnItems = {ri \in {ReturnItem(1, SaleOrderReturn(1, BaseOrder(1), 1), 1),
                              ReturnItem(2, SaleOrderReturn(2, BaseOrder(1), 2), 2)} :
                         \E rt \in returns : rt.record_id = ri.order_refund_id}
    /\ refundMap = <<>>
    /\ call = Idle
    /\ result = NoResult

TenantIds == 1..(MaxOrders + 2)

NextTenant ==
    \/ do_get_local_order_list_info(BaseQuery)
    \/ do_get_local_order_pc_list_info(BaseQuery)
    \/ \E id \in TenantIds :
          do_get_local_order_detail_info(id, BaseQuery.company_id)
    \/ \E id \in TenantIds :
          do_get_order_pc_refund_base(id, BaseQuery.company_id)
    \/ Return

SpecTenant == InitTenant /\ [][NextTenant]_vars

\* The orders of the company that are not disabled, and the rows of the
\* other tables that belong to them.
OwnOrders(company_id) ==
    {o \in orders : o.company_id = company_id /\ ~o.disabled}

OwnRows(rows, company_id) ==
    {r \in rows : \E o \in OwnOrders(company_id) : r.order_id = o.record_id}

\* C28, second sentence, for the list: the rows of another company and of
\* disabled orders do not change the result; the list returns what it
\* returns over the tables without them.
C28_OtherRowsDoNotChangeTheList ==
    (call.name = "list" /\ result.status = "ok") =>
        result \in ListResults(call.arg,
                               OwnOrders(call.arg.company_id),
                               OwnRows(payments, call.arg.company_id),
                               OwnRows(items, call.arg.company_id))

\* The same where no order of another company and no disabled order has the
\* order_number of an order of the company: there the list is not changed.
C28_UnsharedNumbersDoNotChangeTheList ==
    (/\ call.name = "list" /\ result.status = "ok"
     /\ \A o \in OwnOrders(call.arg.company_id) :
           \A other \in orders \ OwnOrders(call.arg.company_id) :
              other.order_number # o.order_number) =>
        result \in ListResults(call.arg,
                               OwnOrders(call.arg.company_id),
                               OwnRows(payments, call.arg.company_id),
                               OwnRows(items, call.arg.company_id))

\* C28, first sentence: every order of records_list of the two lists is an
\* order of the requested company, not disabled, with order_source store
\* order; a detail or a PC refund call that returns rows was made for such
\* an order, and its refunds and refund items are those of that order.
C28_ReturnedRecordsOfTheCompany ==
    /\ (call.name \in {"list", "pc_list"} /\ result.status = "ok") =>
          \A i \in DOMAIN result.records_list :
             \E o \in OwnOrders(call.arg.company_id) :
                /\ o.id = result.records_list[i].id
                /\ o.order_source = STORE_ORDER
    /\ (call.name = "detail" /\ result.status = "ok" /\ result.found) =>
          \E o \in OwnOrders(call.arg.company_id) :
             o.id = call.arg.record_id /\ result.record.id = o.id
    /\ (call.name = "pc_refund_base" /\ result.status = "ok") =>
          /\ (result.refunds # <<>> \/ result.refund_items # <<>>) =>
                \E o \in OwnOrders(call.arg.company_id) :
                   o.id = call.arg.record_id
          /\ \A i \in DOMAIN result.refunds :
                ~IsNull(result.refunds[i].record_id) =>
                   \E rt \in OwnRows(returns, call.arg.company_id) :
                      rt.record_id = Val(result.refunds[i].record_id)

====
